---- MODULE Spec2Model ----
(***************************************************************************)
(* PDF-Wizard: the text-extraction core (utils/pdfProcessor) and the batch *)
(* caller (components/FileUpload).                                         *)
(*                                                                         *)
(* Strings are sequences of one-character strings, so that trim, length,   *)
(* concatenation and the regular-expression passes are computed and not    *)
(* assumed.  Promises are records with a status field; every `await` of    *)
(* the source is a step boundary of the model.                             *)
(***************************************************************************)
EXTENDS Integers, Sequences, FiniteSets, TLC

VARIABLES
    val,        \* one validatePDFFile call: its argument and its return value
    det,        \* one extractDetailedTextFromPDF invocation (locals + promise)
    wp,         \* one extractTextWithProgress invocation (locals + promise + onProgress log)
    pf,         \* one processFiles invocation (locals, position)
    ui,         \* FileUpload React state
    delivered,  \* arguments of the onFilesProcessed calls, in call order
    now,        \* Date.now(), advancing as awaited operations settle
    ext,        \* one extractTextFromPDF invocation (its promise)
    cl,         \* cleanExtractedText applied to a string, and again to its result
    rec,        \* one processTextContent call: its arguments, raw text and result
    exp,        \* ExportPanel: its props, React state and pending handleExport calls
    app         \* App React state: processedFiles and activeFileIndex

vars == <<val, det, wp, pf, ui, delivered, now, ext, cl, rec, exp, app>>

(***************************************************************************)
(* Bounds of the model                                                     *)
(***************************************************************************)
MaxPages == 3        \* documents have 0..MaxPages pages
MaxBatch == 11       \* batches have 0..MaxBatch files
MaxSmallBatch == 2   \* in runs of several batches, each has 0..MaxSmallBatch files
MaxRuns == 2         \* batches handed to the upload component in one run
MaxExports == 3      \* export button clicks in one run
MaxFragments == 2    \* a page's text content has 0..MaxFragments non-blank items
MaxTextLen == 5      \* strings handed to cleanExtractedText: any of 0..MaxTextLen
                     \* characters, and whitespace runs of that length between two letters

(***************************************************************************)
(* Characters and strings                                                  *)
(***************************************************************************)
SP == " "
TAB == "\t"
NL == "\n"
CR == "\r"

\* String.prototype.trim / \s  restricted to the characters of the model
IsWhitespace(c) == c \in {SP, TAB, NL, CR}

RECURSIVE TrimStart(_)
TrimStart(s) ==
    IF s = <<>> THEN <<>>
    ELSE IF IsWhitespace(Head(s)) THEN TrimStart(Tail(s))
    ELSE s

RECURSIVE TrimEnd(_)
TrimEnd(s) ==
    IF s = <<>> THEN <<>>
    ELSE IF IsWhitespace(s[Len(s)]) THEN TrimEnd(SubSeq(s, 1, Len(s) - 1))
    ELSE s

Trim(s) == TrimEnd(TrimStart(s))

\* Number -> decimal string, as `'' + pageNum` and `${pageNum}` do
DigitChar == <<"0", "1", "2", "3", "4", "5", "6", "7", "8", "9">>

RECURSIVE NumberToString(_)
NumberToString(n) ==
    IF n < 10 THEN <<DigitChar[n + 1]>>
    ELSE NumberToString(n \div 10) \o <<DigitChar[(n % 10) + 1]>>

\* '\n\n--- Page ' + pageNum + ' ---\n\n'
PageMarker(pageNum) ==
    <<NL, NL, "-", "-", "-", SP, "P", "a", "g", "e", SP>>
        \o NumberToString(pageNum)
        \o <<SP, "-", "-", "-", NL, NL>>

\* `[Error extracting text from page ${pageNum}]`
ErrorPlaceholder(pageNum) ==
    <<"[", "E", "r", "r", "o", "r", SP,
      "e", "x", "t", "r", "a", "c", "t", "i", "n", "g", SP,
      "t", "e", "x", "t", SP, "f", "r", "o", "m", SP,
      "p", "a", "g", "e", SP>>
        \o NumberToString(pageNum)
        \o <<"]">>

(***************************************************************************)
(* cleanExtractedText                                                      *)
(***************************************************************************)
\* the rest of s after its leading run of spaces and tabs
RECURSIVE DropBlanks(_)
DropBlanks(s) ==
    IF s = <<>> THEN <<>>
    ELSE IF Head(s) \in {SP, TAB} THEN DropBlanks(Tail(s))
    ELSE s

\* CollapseSpaces for the pattern / +/g, which leaves tabs alone
RECURSIVE CollapseSpaces_SpacesOnly(_)
CollapseSpaces_SpacesOnly(s) ==
    IF s = <<>> THEN <<>>
    ELSE IF Head(s) = SP
         THEN IF Len(s) > 1 /\ s[2] = SP
              THEN CollapseSpaces_SpacesOnly(Tail(s))
              ELSE <<SP>> \o CollapseSpaces_SpacesOnly(Tail(s))
         ELSE <<Head(s)>> \o CollapseSpaces_SpacesOnly(Tail(s))

\* .replace(/[ \t]+/g, ' ')
RECURSIVE CollapseSpaces(_)
CollapseSpaces(s) ==
    IF s = <<>> THEN <<>>
    ELSE IF Head(s) \in {SP, TAB}
         THEN <<SP>> \o CollapseSpaces(DropBlanks(Tail(s)))
         ELSE <<Head(s)>> \o CollapseSpaces(Tail(s))

\* end index of the maximal whitespace run of s that starts at index i
RECURSIVE WsRunEnd(_, _)
WsRunEnd(s, i) ==
    IF i < Len(s) /\ IsWhitespace(s[i + 1]) THEN WsRunEnd(s, i + 1) ELSE i

NewlinesIn(s, i, j) == { k \in i..j : s[k] = NL }

Max(S) == CHOOSE m \in S : \A k \in S : k <= m

\* CollapseBreaks for the pattern /\n\n\n/g, without the \s* parts
RECURSIVE CollapseBreaksFrom_Adjacent(_, _)
CollapseBreaksFrom_Adjacent(s, i) ==
    IF i > Len(s) THEN <<>>
    ELSE IF i + 2 <= Len(s) /\ s[i] = NL /\ s[i + 1] = NL /\ s[i + 2] = NL
         THEN <<NL, NL>> \o CollapseBreaksFrom_Adjacent(s, i + 3)
         ELSE <<s[i]>> \o CollapseBreaksFrom_Adjacent(s, i + 1)

\* .replace(/\n\s*\n\s*\n/g, '\n\n'): scanning left to right, a match starts
\* at a line break whose whitespace run holds at least three line breaks and,
\* both \s* being greedy, ends at the last line break of that run
RECURSIVE CollapseBreaksFrom(_, _)
CollapseBreaksFrom(s, i) ==
    IF i > Len(s) THEN <<>>
    ELSE IF s[i] = NL /\ Cardinality(NewlinesIn(s, i, WsRunEnd(s, i))) >= 3
         THEN <<NL, NL>>
                  \o CollapseBreaksFrom(s, Max(NewlinesIn(s, i, WsRunEnd(s, i))) + 1)
         ELSE <<s[i]>> \o CollapseBreaksFrom(s, i + 1)

CollapseBreaks(s) == CollapseBreaksFrom(s, 1)

\* .split('\n')
RECURSIVE Split(_, _)
Split(s, cur) ==
    IF s = <<>> THEN <<cur>>
    ELSE IF Head(s) = NL THEN <<cur>> \o Split(Tail(s), <<>>)
    ELSE Split(Tail(s), Append(cur, Head(s)))

\* .join('\n')
RECURSIVE Join(_)
Join(lines) ==
    IF Len(lines) = 0 THEN <<>>
    ELSE IF Len(lines) = 1 THEN lines[1]
    ELSE lines[1] \o <<NL>> \o Join(Tail(lines))

\* .split('\n').map(line => line.trim()).join('\n')
TrimLines(s) ==
    LET lines == Split(s, <<>>)
    IN  Join([k \in 1..Len(lines) |-> Trim(lines[k])])

cleanExtractedText(text) == Trim(TrimLines(CollapseBreaks(CollapseSpaces(text))))

(***************************************************************************)
(* processTextContent                                                      *)
(***************************************************************************)
\* a text item of pdf.js: str, transform[4] (x), transform[5] (y), width
Item(str, x, y, width) == [str |-> str, x |-> x, y |-> y, width |-> width]

\* an item without a usable str (item.str undefined): itemText.trim() throws
NoStr == <<"<undefined>">>

Abs(n) == IF n < 0 THEN -n ELSE n

\* char.charCodeAt(0) > 127; the model's only such character is e-acute
EAcute == "<e-acute>"
IsNonAscii(c) == c = EAcute
IsStandardPrintable(c) ==
    c \in {"a", "b", "H", "i", "y", "o", "0", "1", "2", "3", "4", "5", "6",
           "7", "8", "9", ".", ",", ";", ":", "!", "?", "-", "'", "(", ")",
           "[", "]", "{", "}"}

\* ProcessChar that keeps ASCII and puts "?" for any other character
ProcessChar_AsciiOnly(c) ==
    IF IsNonAscii(c) THEN "?"
    ELSE IF c = SP THEN SP
    ELSE IF IsStandardPrintable(c) THEN c
    ELSE c

\* the character-by-character pass: every branch appends the character
ProcessChar(c) ==
    IF IsNonAscii(c) THEN c
    ELSE IF c = SP THEN SP
    ELSE IF IsStandardPrintable(c) THEN c
    ELSE c

ProcessedText(itemText) == [k \in 1..Len(itemText) |-> ProcessChar(itemText[k])]

StartsWithSpace(s) == s # <<>> /\ s[1] = SP
EndsWithSpace(s) == s # <<>> /\ s[Len(s)] = SP

\* null is <<>>, a number n is <<n>>
Null == <<>>

\* FormattingPrefix with a line break from a vertical distance of 5 on
FormattingPrefix_BreakAtFive(options, lastY, lastX, currentY, currentX) ==
    IF ~options.preserveFormatting THEN <<>>
    ELSE IF lastY # Null /\ Abs(currentY - lastY[1]) >= 5 THEN <<NL>>
    ELSE IF lastX # Null /\ currentX - lastX[1] > 20 THEN <<SP>>
    ELSE <<>>

\* FormattingPrefix with a space from a horizontal gap of 20 on
FormattingPrefix_GapAtTwenty(options, lastY, lastX, currentY, currentX) ==
    IF ~options.preserveFormatting THEN <<>>
    ELSE IF lastY # Null /\ Abs(currentY - lastY[1]) > 5 THEN <<NL>>
    ELSE IF lastX # Null /\ currentX - lastX[1] >= 20 THEN <<SP>>
    ELSE <<>>

\* what the formatting branch appends before the item's text
FormattingPrefix(options, lastY, lastX, currentY, currentX) ==
    IF ~options.preserveFormatting THEN <<>>
    ELSE IF lastY # Null /\ Abs(currentY - lastY[1]) > 5 THEN <<NL>>
    ELSE IF lastX # Null /\ currentX - lastX[1] > 20 THEN <<SP>>
    ELSE <<>>

\* CombinePrefix that starts combining at the third item (i > 1)
CombinePrefix_FromThirdItem(options, i, text, processedText, lastY, currentY) ==
    IF options.combineTextItems /\ i > 1
       /\ lastY # Null /\ Abs(currentY - lastY[1]) <= 5
       /\ ~EndsWithSpace(text) /\ ~StartsWithSpace(processedText)
    THEN <<SP>>
    ELSE <<>>

\* CombinePrefix that does not look at the end of the output so far
CombinePrefix_IgnoresOutput(options, i, text, processedText, lastY, currentY) ==
    IF options.combineTextItems /\ i > 0
       /\ lastY # Null /\ Abs(currentY - lastY[1]) <= 5
       /\ ~StartsWithSpace(processedText)
    THEN <<SP>>
    ELSE <<>>

\* what the combine branch appends before the item's text
CombinePrefix(options, i, text, processedText, lastY, currentY) ==
    IF options.combineTextItems /\ i > 0
       /\ lastY # Null /\ Abs(currentY - lastY[1]) <= 5
       /\ ~EndsWithSpace(text) /\ ~StartsWithSpace(processedText)
    THEN <<SP>>
    ELSE <<>>

\* the loop of processTextContent from item index i (0-based) on; the result
\* is the accumulated raw text, or Thrown when an item has no str
Thrown == [throws |-> TRUE, text |-> <<>>]
Returned(text) == [throws |-> FALSE, text |-> text]

\* ProcessItems where a blank item moves lastY and lastX as any item does
RECURSIVE ProcessItems_BlankMoves(_, _, _, _, _, _)
ProcessItems_BlankMoves(items, options, i, text, lastY, lastX) ==
    IF i >= Len(items) THEN Returned(text)
    ELSE LET item == items[i + 1]
             itemText == item.str
         IN  IF itemText = NoStr THEN Thrown
             ELSE IF Trim(itemText) = <<>>
             THEN ProcessItems_BlankMoves(items, options, i + 1, text,
                                          <<item.y>>, <<item.x + item.width>>)
             ELSE LET currentY == item.y
                      currentX == item.x
                      processedText == ProcessedText(itemText)
                      text1 == text \o FormattingPrefix(options, lastY, lastX,
                                                        currentY, currentX)
                      text2 == text1 \o CombinePrefix(options, i, text1,
                                                      processedText, lastY, currentY)
                  IN  ProcessItems_BlankMoves(items, options, i + 1,
                                              text2 \o processedText,
                                              <<currentY>>, <<currentX + item.width>>)

RECURSIVE ProcessItems(_, _, _, _, _, _)
ProcessItems(items, options, i, text, lastY, lastX) ==
    IF i >= Len(items) THEN Returned(text)
    ELSE LET item == items[i + 1]
             itemText == item.str
         IN  IF itemText = NoStr THEN Thrown
             ELSE IF Trim(itemText) = <<>>
             THEN ProcessItems(items, options, i + 1, text, lastY, lastX)
             ELSE LET currentY == item.y
                      currentX == item.x
                      processedText == ProcessedText(itemText)
                      text1 == text \o FormattingPrefix(options, lastY, lastX,
                                                        currentY, currentX)
                      text2 == text1 \o CombinePrefix(options, i, text1,
                                                      processedText, lastY, currentY)
                  IN  ProcessItems(items, options, i + 1, text2 \o processedText,
                                   <<currentY>>, <<currentX + item.width>>)

\* textContent is [items |-> <<...>>]; NoItems models a null/itemless value
NoItems == [items |-> <<>>, missing |-> TRUE]
TextContent(items) == [items |-> items, missing |-> FALSE]

processTextContent(textContent, options) ==
    IF textContent.missing THEN Returned(<<>>)
    ELSE LET r == ProcessItems(textContent.items, options, 0, <<>>, Null, Null)
         IN  IF r.throws THEN Thrown ELSE Returned(cleanExtractedText(r.text))

(***************************************************************************)
(* Files and documents                                                     *)
(***************************************************************************)
PDF == "application/pdf"

\* what pdf.js yields for one page: getPage may reject; otherwise
\* getTextContent yields items
PageSource(fetch, items) == [fetch |-> fetch, textContent |-> TextContent(items)]

PgFetchThrows == PageSource("throws", <<>>)
PgBadItem == PageSource("ok", <<Item(<<"a">>, 0, 100, 5), Item(NoStr, 10, 100, 5)>>)
PgBlank == PageSource("ok", <<Item(<<SP>>, 0, 100, 3)>>)
PgHello == PageSource("ok", <<Item(<<"H", "i">>, 0, 100, 10), Item(<<"y", "o">>, 11, 100, 10)>>)
PgLines == PageSource("ok", <<Item(<<"a">>, 0, 100, 5), Item(<<"b">>, 0, 130, 5)>>)

PageSources == {PgFetchThrows, PgBadItem, PgBlank, PgHello, PgLines}

\* what pdfDocument.getMetadata() yields: a rejection, or an info dictionary
\* (a missing entry of the dictionary is undefined)
undefined == "<undefined>"
InfoKeys == {"Title", "Author", "Subject", "Creator", "Producer", "CreationDate", "ModDate"}
BareInfo == [k \in InfoKeys |-> undefined]
FullInfo == [k \in InfoKeys |-> IF k = "Title" THEN "T" ELSE IF k = "Author" THEN "" ELSE undefined]
MetaThrows == [throws |-> TRUE, info |-> BareInfo]
MetaBare == [throws |-> FALSE, info |-> BareInfo]
MetaFull == [throws |-> FALSE, info |-> FullInfo]
MetaSources == {MetaThrows, MetaBare, MetaFull}

\* the content behind a File: whether FileReader can read it, whether
\* getDocument can open it, and the document it opens to
Content(readable, loadable, pages, meta) ==
    [readable |-> readable, loadable |-> loadable, pages |-> pages, meta |-> meta]

Documents ==
    UNION { [1..n -> PageSources] : n \in 0..MaxPages }

Contents ==
    { Content(TRUE, TRUE, pages, meta) : pages \in Documents, meta \in MetaSources }
        \cup { Content(FALSE, FALSE, <<>>, MetaBare), Content(TRUE, FALSE, <<>>, MetaBare) }

File(name, type, size, content) ==
    [null |-> FALSE, name |-> name, type |-> type, size |-> size, content |-> content]

\* a missing descriptor (null / undefined)
NullFile ==
    [null |-> TRUE, name |-> "", type |-> "", size |-> 0,
     content |-> Content(FALSE, FALSE, <<>>, MetaBare)]

TextExtractionOptions ==
    [preserveFormatting : BOOLEAN, includeMetadata : BOOLEAN, combineTextItems : BOOLEAN]

DefaultOptions ==
    [preserveFormatting |-> TRUE, includeMetadata |-> TRUE, combineTextItems |-> TRUE]

(***************************************************************************)
(* validatePDFFile                                                         *)
(***************************************************************************)
MaxFileSize == 50 * 1024 * 1024

Valid == [isValid |-> TRUE, error |-> undefined]
Invalid(error) == [isValid |-> FALSE, error |-> error]

\* validatePDFFile checking the size ceiling before the type
validatePDFFile_SizeFirst(file) ==
    IF file.null THEN Invalid("No file provided")
    ELSE IF file.size > MaxFileSize THEN Invalid("File size must be less than 50MB")
    ELSE IF file.type # PDF THEN Invalid("File must be a PDF document")
    ELSE IF file.size = 0 THEN Invalid("File appears to be empty")
    ELSE Valid

\* validatePDFFile with the ceiling itself excluded (>= for >)
validatePDFFile_CeilingExcluded(file) ==
    IF file.null THEN Invalid("No file provided")
    ELSE IF file.type # PDF THEN Invalid("File must be a PDF document")
    ELSE IF file.size >= MaxFileSize THEN Invalid("File size must be less than 50MB")
    ELSE IF file.size = 0 THEN Invalid("File appears to be empty")
    ELSE Valid

validatePDFFile(file) ==
    IF file.null THEN Invalid("No file provided")
    ELSE IF file.type # PDF THEN Invalid("File must be a PDF document")
    ELSE IF file.size > MaxFileSize THEN Invalid("File size must be less than 50MB")
    ELSE IF file.size = 0 THEN Invalid("File appears to be empty")
    ELSE Valid

(***************************************************************************)
(* fileToArrayBuffer and pdfjsLib.getDocument, as seen by their callers    *)
(***************************************************************************)
\* the message of the rejection of fileToArrayBuffer(file), or undefined when
\* it resolves; a missing file makes readAsArrayBuffer throw a TypeError
ReadFailure(file) ==
    IF file.null THEN "parameter 1 is not of type 'Blob'"
    ELSE IF ~file.content.readable THEN "File reading failed"
    ELSE undefined

\* the message of the rejection of loadingTask.promise, or undefined
LoadFailure(file) ==
    IF ~file.content.loadable THEN "Invalid PDF structure" ELSE undefined

numPages(file) == Len(file.content.pages)

\* the message of the error thrown while page pageNum is fetched or processed
PageFailure(file, pageNum) ==
    IF file.content.pages[pageNum].fetch = "throws" THEN "Page request failed"
    ELSE "Cannot read properties of undefined (reading 'trim')"

(***************************************************************************)
(* extractDetailedTextFromPDF                                              *)
(***************************************************************************)
NoMetadata == [present |-> FALSE]

\* `value || undefined`
OrUndefined(value) == IF value = "" \/ value = undefined THEN undefined ELSE value

MetadataOf(file) ==
    [present |-> TRUE,
     pageCount |-> numPages(file),
     title |-> OrUndefined(file.content.meta.info["Title"]),
     author |-> OrUndefined(file.content.meta.info["Author"]),
     subject |-> OrUndefined(file.content.meta.info["Subject"]),
     creator |-> OrUndefined(file.content.meta.info["Creator"]),
     producer |-> OrUndefined(file.content.meta.info["Producer"]),
     creationDate |-> OrUndefined(file.content.meta.info["CreationDate"]),
     modificationDate |-> OrUndefined(file.content.meta.info["ModDate"])]

PageCountOnly(file) == [present |-> TRUE, pageCount |-> numPages(file)]

NoResult == [text |-> <<>>, metadata |-> NoMetadata, pages |-> <<>>]

DetIdle ==
    [pc |-> "idle", file |-> NullFile, options |-> DefaultOptions,
     metadata |-> NoMetadata, pages |-> <<>>, fullText |-> <<>>, pageNum |-> 0,
     result |-> NoResult, error |-> <<>>]

\* DetRejected with a message that leaves the cause out
DetRejected_NoCause(d, cause) ==
    [d EXCEPT !.pc = "rejected", !.error = <<"PDF processing failed">>]

\* reject(new Error(`PDF processing failed: ${error.message}`))
DetRejected(d, cause) ==
    [d EXCEPT !.pc = "rejected", !.error = <<"PDF processing failed: ", cause>>]

\* the outcome of `await getPage; await getTextContent; processTextContent`
\* for page pageNum: Thrown, or the page text
PageOutcome(file, options, pageNum) ==
    LET src == file.content.pages[pageNum]
    IN  IF src.fetch = "throws" THEN Thrown
        ELSE processTextContent(src.textContent, options)

\* PageEntry counting the characters of the page together with its marker
PageEntry_CountsMarker(pageNum, pageText) ==
    [pageNumber |-> pageNum, text |-> pageText,
     characterCount |-> Len(PageMarker(pageNum) \o pageText)]

\* the entry pushed for a page that was extracted
PageEntry(pageNum, pageText) ==
    [pageNumber |-> pageNum, text |-> pageText, characterCount |-> Len(pageText)]

\* FailedPageEntry with a placeholder that does not name the page
FailedPageEntry_Unnumbered(pageNum) ==
    [pageNumber |-> pageNum, text |-> ErrorPlaceholder(0), characterCount |-> 0]

\* the entry pushed by the catch block of the page loop
FailedPageEntry(pageNum) ==
    [pageNumber |-> pageNum, text |-> ErrorPlaceholder(pageNum), characterCount |-> 0]

\* PageContribution that puts a marker before page 1 as well
PageContribution_EveryPage(pageNum, pageText) ==
    (IF pageNum >= 1 /\ Trim(pageText) # <<>> THEN PageMarker(pageNum) ELSE <<>>)
        \o pageText

\* PageContribution that puts a marker before blank pages as well
PageContribution_BlankToo(pageNum, pageText) ==
    (IF pageNum > 1 THEN PageMarker(pageNum) ELSE <<>>) \o pageText

\* what the page loop appends to fullText for an extracted page
PageContribution(pageNum, pageText) ==
    (IF pageNum > 1 /\ Trim(pageText) # <<>> THEN PageMarker(pageNum) ELSE <<>>)
        \o pageText

\* DetLoopBody without the per-page catch: a page failure rejects the call
DetLoopBody_Uncaught(d) ==
    LET out == PageOutcome(d.file, d.options, d.pageNum)
    IN  IF out.throws
        THEN DetRejected(d, PageFailure(d.file, d.pageNum))
        ELSE [d EXCEPT !.pages = Append(@, PageEntry(d.pageNum, out.text)),
                       !.fullText = @ \o PageContribution(d.pageNum, out.text),
                       !.pageNum = @ + 1]

\* DetLoopBody whose catch block pushes nothing for the failed page
DetLoopBody_Omit(d) ==
    LET out == PageOutcome(d.file, d.options, d.pageNum)
    IN  IF out.throws
        THEN [d EXCEPT !.pageNum = @ + 1]
        ELSE [d EXCEPT !.pages = Append(@, PageEntry(d.pageNum, out.text)),
                       !.fullText = @ \o PageContribution(d.pageNum, out.text),
                       !.pageNum = @ + 1]

\* DetLoopBody whose catch block also appends the placeholder to fullText
DetLoopBody_SentinelInText(d) ==
    LET out == PageOutcome(d.file, d.options, d.pageNum)
    IN  IF out.throws
        THEN [d EXCEPT !.pages = Append(@, FailedPageEntry(d.pageNum)),
                       !.fullText = @ \o FailedPageEntry(d.pageNum).text,
                       !.pageNum = @ + 1]
        ELSE [d EXCEPT !.pages = Append(@, PageEntry(d.pageNum, out.text)),
                       !.fullText = @ \o PageContribution(d.pageNum, out.text),
                       !.pageNum = @ + 1]

\* one iteration of the page loop, try and catch included
DetLoopBody(d) ==
    LET out == PageOutcome(d.file, d.options, d.pageNum)
    IN  IF out.throws
        THEN [d EXCEPT !.pages = Append(@, FailedPageEntry(d.pageNum)),
                       !.pageNum = @ + 1]
        ELSE [d EXCEPT !.pages = Append(@, PageEntry(d.pageNum, out.text)),
                       !.fullText = @ \o PageContribution(d.pageNum, out.text),
                       !.pageNum = @ + 1]

\* the loop test and, once it fails, the resolve call
DetLoopTest(d) ==
    IF d.pageNum <= numPages(d.file) THEN d
    ELSE [d EXCEPT !.pc = "resolved",
                   !.result = [text |-> Trim(d.fullText),
                               metadata |-> d.metadata,
                               pages |-> d.pages]]

\* `const pages = []; let fullText = ''; for (let pageNum = 1; ...`
DetEnterLoop(d, metadata) ==
    DetLoopTest([d EXCEPT !.pc = "page", !.metadata = metadata, !.pages = <<>>,
                          !.fullText = <<>>, !.pageNum = 1])

\* the call: the executor runs up to the first await
DetCall(file, options) ==
    /\ det.pc = "idle"
    /\ det' = [DetIdle EXCEPT !.pc = "read", !.file = file, !.options = options]
    /\ UNCHANGED <<ext, cl, rec, val, wp, pf, ui, delivered, now, exp, app>>

\* fileToArrayBuffer settles
DetRead ==
    /\ det.pc = "read"
    /\ det' = IF ReadFailure(det.file) # undefined
              THEN DetRejected(det, ReadFailure(det.file))
              ELSE [det EXCEPT !.pc = "load"]
    /\ UNCHANGED <<ext, cl, rec, val, wp, pf, ui, delivered, now, exp, app>>

\* loadingTask.promise settles
DetLoad ==
    /\ det.pc = "load"
    /\ det' = IF LoadFailure(det.file) # undefined
              THEN DetRejected(det, LoadFailure(det.file))
              ELSE IF det.options.includeMetadata
              THEN [det EXCEPT !.pc = "metadata"]
              ELSE DetEnterLoop(det, NoMetadata)
    /\ UNCHANGED <<ext, cl, rec, val, wp, pf, ui, delivered, now, exp, app>>

\* DetMetadata without the inner catch: a metadata failure rejects the call
DetMetadata_Uncaught ==
    /\ det.pc = "metadata"
    /\ det' = IF det.file.content.meta.throws
              THEN DetRejected(det, "Metadata request failed")
              ELSE DetEnterLoop(det, MetadataOf(det.file))
    /\ UNCHANGED <<ext, cl, rec, val, wp, pf, ui, delivered, now, exp, app>>

\* pdfDocument.getMetadata() settles
DetMetadata ==
    /\ det.pc = "metadata"
    /\ det' = IF det.file.content.meta.throws
              THEN DetEnterLoop(det, PageCountOnly(det.file))
              ELSE DetEnterLoop(det, MetadataOf(det.file))
    /\ UNCHANGED <<ext, cl, rec, val, wp, pf, ui, delivered, now, exp, app>>

\* the awaits of one page settle
DetPage ==
    /\ det.pc = "page"
    /\ det' = DetLoopTest(DetLoopBody(det))
    /\ UNCHANGED <<ext, cl, rec, val, wp, pf, ui, delivered, now, exp, app>>

(***************************************************************************)
(* extractTextWithProgress                                                 *)
(***************************************************************************)
\* Progress values are JavaScript numbers: IEEE 754 doubles, every operation
\* rounded to the nearest value of 53 significant bits, ties to even.  A
\* positive number is [m |-> its 53 bits, first bit 1 first, e |-> the
\* exponent of that first bit]; the progress values are never negative,
\* infinite or subnormal.
Precision == 53
Zero == [m |-> <<>>, e |-> 0]
Zeros(n) == [k \in 1..n |-> 0]

\* the arithmetic below works on chunks of ChunkBits bits
ChunkBits == 12
ChunkBase == 2 ^ ChunkBits

\* the natural number v < 2^w in w binary digits, highest first
FixedBits(v, w) == [k \in 1..w |-> (v \div (2 ^ (w - k))) % 2]

\* the natural number that at most ChunkBits binary digits spell
RECURSIVE BitsValue(_)
BitsValue(bits) ==
    IF bits = <<>> THEN 0
    ELSE 2 * BitsValue(SubSeq(bits, 1, Len(bits) - 1)) + bits[Len(bits)]

\* chunk c (1 is the highest) of a bit string whose length is a multiple of
\* ChunkBits
Chunk(bits, c) == BitsValue(SubSeq(bits, (c - 1) * ChunkBits + 1, c * ChunkBits))
Chunks(bits) == Len(bits) \div ChunkBits

\* zeros in front, up to the next multiple of ChunkBits
PadFront(bits) == Zeros((ChunkBits - (Len(bits) % ChunkBits)) % ChunkBits) \o bits

\* 1 added to the integer that the bits spell
AddOne(bits, e) ==
    IF \A k \in 1..Len(bits) : bits[k] = 1
    THEN [m |-> <<1>> \o Zeros(Len(bits) - 1), e |-> e + 1]
    ELSE LET j == Max({ k \in 1..Len(bits) : bits[k] = 0 })
         IN  [m |-> [k \in 1..Len(bits) |->
                        IF k < j THEN bits[k] ELSE IF k = j THEN 1 ELSE 0],
              e |-> e]

\* round to nearest, ties to even: bits start with a 1 of exponent e, and
\* sticky tells that the exact value has more after the bits given
Round(bits, e, sticky) ==
    LET padded == IF Len(bits) < Precision + 2
                  THEN bits \o Zeros(Precision + 2 - Len(bits))
                  ELSE bits
        kept == SubSeq(padded, 1, Precision)
        guard == padded[Precision + 1]
        rest == sticky \/ \E k \in (Precision + 2)..Len(padded) : padded[k] = 1
    IN  IF guard = 1 /\ (rest \/ kept[Precision] = 1)
        THEN AddOne(kept, e)
        ELSE [m |-> kept, e |-> e]

\* the same for bits that may start with zeros; e is the exponent of bits[1]
Normalize(bits, e, sticky) ==
    IF \A k \in 1..Len(bits) : bits[k] = 0 THEN Zero
    ELSE LET j == CHOOSE k \in 1..Len(bits) :
                      bits[k] = 1 /\ \A i \in 1..(k - 1) : bits[i] = 0
         IN  Round(SubSeq(bits, j, Len(bits)), e - (j - 1), sticky)

\* a natural number below 2^30 as a double
Whole(n) == Normalize(FixedBits(n, 30), 29, FALSE)

\* long division by a small positive integer n, chunk by chunk from the
\* highest: the quotient bits of the dividend bits, and the remainder
RECURSIVE DivideBits(_, _, _, _, _)
DivideBits(bits, n, c, r, acc) ==
    IF c > Chunks(bits) THEN [bits |-> acc, r |-> r]
    ELSE LET v == r * ChunkBase + Chunk(bits, c)
         IN  DivideBits(bits, n, c + 1, v % n, acc \o FixedBits(v \div n, ChunkBits))

\* x / n for a double x and a small positive integer n: the dividend is
\* extended by 67 zeros, to 120 bits
Over(x, n) ==
    IF x = Zero THEN Zero
    ELSE LET q == DivideBits(x.m \o Zeros(10 * ChunkBits - Precision), n, 1, 0, <<>>)
         IN  Normalize(q.bits, x.e, q.r # 0)

\* num / den for two natural numbers
Frac(num, den) == Over(Whole(num), den)

\* the product of the integer that the bits spell and a small n, chunk by
\* chunk from the lowest, with the last carry as one more chunk in front
RECURSIVE MultiplyBits(_, _, _, _, _)
MultiplyBits(bits, n, c, carry, acc) ==
    IF c = 0 THEN FixedBits(carry, ChunkBits) \o acc
    ELSE LET d == Chunk(bits, c) * n + carry
         IN  MultiplyBits(bits, n, c - 1, d \div ChunkBase,
                          FixedBits(d % ChunkBase, ChunkBits) \o acc)

\* x * n for a double x and a small natural number n
Times(x, n) ==
    IF x = Zero \/ n = 0 THEN Zero
    ELSE LET a == PadFront(x.m)
             product == MultiplyBits(a, n, Chunks(a), 0, <<>>)
         IN  Normalize(product, x.e + (Len(product) - Len(x.m)), FALSE)

\* the sum of two bit strings of one length, chunk by chunk from the lowest,
\* with the last carry as one more chunk in front
RECURSIVE AddBits(_, _, _, _, _)
AddBits(a, b, c, carry, acc) ==
    IF c = 0 THEN FixedBits(carry, ChunkBits) \o acc
    ELSE LET d == Chunk(a, c) + Chunk(b, c) + carry
         IN  AddBits(a, b, c - 1, d \div ChunkBase,
                     FixedBits(d % ChunkBase, ChunkBits) \o acc)

\* x + y
Plus(x, y) ==
    IF x = Zero THEN y
    ELSE IF y = Zero THEN x
    ELSE LET hi == IF x.e >= y.e THEN x ELSE y
             lo == IF x.e >= y.e THEN y ELSE x
             d == hi.e - lo.e
             a == PadFront(hi.m \o Zeros(d))
             b == PadFront(Zeros(d) \o lo.m)
             sum == AddBits(a, b, Chunks(a), 0, <<>>)
         IN  Normalize(sum, hi.e + (Len(sum) - (Precision + d)), FALSE)

\* a < b, a <= b, a === b
FracLess(a, b) ==
    IF b = Zero THEN FALSE
    ELSE IF a = Zero THEN TRUE
    ELSE IF a.e # b.e THEN a.e < b.e
    ELSE \E k \in 1..Precision :
             /\ a.m[k] < b.m[k]
             /\ \A i \in 1..(k - 1) : a.m[i] = b.m[i]
FracEq(a, b) == a = b
FracLeq(a, b) == FracLess(a, b) \/ FracEq(a, b)

\* PageProgress reporting the fraction of pages done before this one
PageProgress_PagesBefore(pageNum, totalPages) ==
    Plus(Whole(40), Times(Frac(pageNum - 1, totalPages), 50))

\* 40 + (pageNum / totalPages) * 50
PageProgress(pageNum, totalPages) ==
    Plus(Whole(40), Times(Frac(pageNum, totalPages), 50))

Status(text, args) == [text |-> text, args |-> args]

\* the onProgress arguments of one invocation
ProgressCall(progress, status) == [progress |-> progress, status |-> status]

WpIdle ==
    [pc |-> "idle", file |-> NullFile, options |-> DefaultOptions,
     onProgress |-> "undefined", fullText |-> <<>>, pageNum |-> 0, totalPages |-> 0,
     calls |-> <<>>, result |-> <<>>, error |-> <<>>]

\* onProgress?.(progress, status): wp.calls records the invocations made
Report(w, progress, status) ==
    IF w.onProgress = "undefined" THEN w
    ELSE [w EXCEPT !.calls = Append(@, ProgressCall(progress, status))]

\* throw new Error(`PDF text extraction failed: ${error.message}`)
WpRejected(w, cause) ==
    [w EXCEPT !.pc = "rejected", !.error = <<"PDF text extraction failed: ", cause>>]

\* WpFinalize without the 95 milestone
WpFinalize_No95(w) ==
    [Report(w, Whole(100), Status("Text extraction completed", <<>>))
        EXCEPT !.pc = "resolved", !.result = Trim(w.fullText)]

\* WpFinalize that returns fullText as it is, untrimmed
WpFinalize_NoTrim(w) ==
    LET w95 == Report(w, Whole(95), Status("Finalizing text extraction...", <<>>))
        finalText == w95.fullText
        w100 == Report(w95, Whole(100), Status("Text extraction completed", <<>>))
    IN  [w100 EXCEPT !.pc = "resolved", !.result = finalText]

\* the statements after the page loop
WpFinalize(w) ==
    LET w95 == Report(w, Whole(95), Status("Finalizing text extraction...", <<>>))
        finalText == Trim(w95.fullText)
        w100 == Report(w95, Whole(100), Status("Text extraction completed", <<>>))
    IN  [w100 EXCEPT !.pc = "resolved", !.result = finalText]

WpLoopTest(w) ==
    IF w.pageNum <= w.totalPages THEN w ELSE WpFinalize(w)

\* one iteration of the page loop; a throw leaves the loop for the outer catch
WpLoopBody(w) ==
    LET out == PageOutcome(w.file, w.options, w.pageNum)
    IN  IF out.throws
        THEN WpRejected(w, PageFailure(w.file, w.pageNum))
        ELSE WpLoopTest(
                 [Report([w EXCEPT !.fullText = @ \o PageContribution(w.pageNum, out.text)],
                         PageProgress(w.pageNum, w.totalPages),
                         Status("Processed page of", <<w.pageNum, w.totalPages>>))
                     EXCEPT !.pageNum = @ + 1])

\* `options || { preserveFormatting: true, ... }`
NoOptions == [undefined |-> TRUE]
OptionsOrDefault(options) == IF options = NoOptions THEN DefaultOptions ELSE options

\* the call, up to its first await
WpStarted(file, onProgress, options) ==
    LET w0 == [WpIdle EXCEPT !.file = file, !.onProgress = onProgress,
                             !.options = OptionsOrDefault(options)]
        w10 == Report(w0, Whole(10), Status("Validating PDF file...", <<>>))
        validation == validatePDFFile(file)
    IN  IF ~validation.isValid THEN WpRejected(w10, validation.error)
        ELSE [Report(w10, Whole(20), Status("Loading PDF document...", <<>>))
                 EXCEPT !.pc = "read"]

\* fileToArrayBuffer settled
WpAfterRead(w) ==
    IF ReadFailure(w.file) # undefined THEN WpRejected(w, ReadFailure(w.file))
    ELSE [Report(w, Whole(30), Status("Parsing PDF structure...", <<>>))
             EXCEPT !.pc = "load"]

\* loadingTask.promise settled
WpAfterLoad(w) ==
    IF LoadFailure(w.file) # undefined THEN WpRejected(w, LoadFailure(w.file))
    ELSE WpLoopTest(
             [Report(w, Whole(40), Status("Processing pages...", <<numPages(w.file)>>))
                 EXCEPT !.pc = "page", !.fullText = <<>>,
                        !.totalPages = numPages(w.file), !.pageNum = 1])

(***************************************************************************)
(* FileUpload: React state and the onProgress closure of processFiles      *)
(***************************************************************************)
NoError == <<>>

\* processingStatus: '' or `${file.name}: ${status}` or a fixed text
UiStatus(name, status) == [file |-> name, text |-> status.text, args |-> status.args]
NoStatus == UiStatus("", Status("", <<>>))

UiInit ==
    [isProcessing |-> FALSE, processingProgress |-> Whole(0), processingStatus |-> NoStatus,
     currentFileName |-> "", error |-> NoError]

\* (i / pdfFiles.length) * 100 + (progress / pdfFiles.length)
FileProgress(i, n, progress) == Plus(Times(Frac(i, n), 100), Over(progress, n))

\* the closure passed as onProgress, applied to every invocation that w made
\* beyond those of wOld (state setters overwrite, so the last one shows)
ApplyProgress(u, wOld, w, i, pdfFiles) ==
    IF w.onProgress # "processFiles" \/ Len(w.calls) = Len(wOld.calls) THEN u
    ELSE LET call == w.calls[Len(w.calls)]
         IN  [u EXCEPT !.processingProgress =
                           FileProgress(i, Len(pdfFiles), call.progress),
                       !.processingStatus = UiStatus(pdfFiles[i + 1].name, call.status)]

PfIdle ==
    [pc |-> "idle", files |-> <<>>, pdfFiles |-> <<>>, validated |-> 0, i |-> 0,
     startTime |-> 0, processedFiles |-> <<>>, calls |-> 0]

\* a standalone call of extractTextWithProgress
WpCall(file, onProgress, options) ==
    /\ wp.pc = "idle"
    /\ pf.pc = "idle"
    /\ wp' = WpStarted(file, onProgress, options)
    /\ UNCHANGED <<ext, cl, rec, val, det, pf, ui, delivered, now, exp, app>>

WpRead ==
    /\ wp.pc = "read"
    /\ wp' = WpAfterRead(wp)
    /\ ui' = ApplyProgress(ui, wp, wp', pf.i, pf.pdfFiles)
    /\ now' = now + 1
    /\ UNCHANGED <<ext, cl, rec, val, det, pf, delivered, exp, app>>

WpLoad ==
    /\ wp.pc = "load"
    /\ wp' = WpAfterLoad(wp)
    /\ ui' = ApplyProgress(ui, wp, wp', pf.i, pf.pdfFiles)
    /\ now' = now + 1
    /\ UNCHANGED <<ext, cl, rec, val, det, pf, delivered, exp, app>>

WpPage ==
    /\ wp.pc = "page"
    /\ wp' = WpLoopBody(wp)
    /\ ui' = ApplyProgress(ui, wp, wp', pf.i, pf.pdfFiles)
    /\ now' = now + 1
    /\ UNCHANGED <<ext, cl, rec, val, det, pf, delivered, exp, app>>

(***************************************************************************)
(* App                                                                     *)
(***************************************************************************)
AppInit == [processedFiles |-> <<>>, activeFileIndex |-> 0]

\* handleFilesProcessed that leaves activeFileIndex as it is
handleFilesProcessed_KeepsIndex(a, files) ==
    [a EXCEPT !.processedFiles = files]

\* setProcessedFiles(files); setActiveFileIndex(0)
handleFilesProcessed(a, files) ==
    [a EXCEPT !.processedFiles = files, !.activeFileIndex = 0]

\* processedFiles[activeFileIndex] is defined (indices are 0-based)
HasActiveFile(a) == a.activeFileIndex < Len(a.processedFiles)

\* handleTextChange(newText): a copy of processedFiles with the extractedText
\* of the entry at activeFileIndex replaced
handleTextChange(a, newText) ==
    IF Len(a.processedFiles) > 0
    THEN [a EXCEPT !.processedFiles[a.activeFileIndex + 1].extractedText = newText]
    ELSE a

\* a click on the button of file `index` in the list of processed files,
\* which is rendered when there are several files
SetActiveFileIndex(index) ==
    /\ Len(app.processedFiles) > 1
    /\ index \in 0..(Len(app.processedFiles) - 1)
    /\ app' = [app EXCEPT !.activeFileIndex = index]
    /\ UNCHANGED <<val, det, wp, pf, ui, delivered, now, ext, cl, rec, exp>>

\* the textarea of TextEditor, rendered when there is an active file, changes
TextChange(newText) ==
    /\ HasActiveFile(app)
    /\ app' = handleTextChange(app, newText)
    /\ UNCHANGED <<val, det, wp, pf, ui, delivered, now, ext, cl, rec, exp>>

(***************************************************************************)
(* ExportPanel                                                             *)
(***************************************************************************)
ExportFormats == {"txt", "html", "docx"}
NoFormat == "<null>"

\* text: the prop; isExporting: the state; pending: the handleExport calls
\* waiting for their 500 ms timer, oldest first; saved: the saveAs calls
ExpInit ==
    [text |-> <<"a">>, isExporting |-> NoFormat, pending |-> <<>>, saved |-> <<>>,
     clicks |-> 0]

\* disabled={isLoading || !text.trim()}
ExportEnabled(e, format) == e.isExporting # format /\ Trim(e.text) # <<>>

\* a click on an export button: handleExport(format) up to its await
HandleExport(format) ==
    /\ ExportEnabled(exp, format)
    /\ exp' = [exp EXCEPT !.isExporting = format,
                          !.pending = Append(@, format),
                          !.clicks = @ + 1]
    /\ UNCHANGED <<val, det, wp, pf, ui, delivered, now, ext, cl, rec, app>>

\* the oldest 500 ms timer fires: exportAsText(format), then the finally block
ExportTimer ==
    /\ exp.pending # <<>>
    /\ exp' = [exp EXCEPT !.pending = Tail(@),
                          !.saved = Append(@, Head(exp.pending)),
                          !.isExporting = NoFormat]
    /\ UNCHANGED <<val, det, wp, pf, ui, delivered, now, ext, cl, rec, app>>

\* the parent renders the panel with another text
ExportPanelProps(text) ==
    /\ exp' = [exp EXCEPT !.text = text]
    /\ UNCHANGED <<val, det, wp, pf, ui, delivered, now, ext, cl, rec, app>>

(***************************************************************************)
(* processFiles                                                            *)
(***************************************************************************)
MaxFilesAtOnce == 10

\* the filter left out: every file of the batch is kept
FilterPdf_KeepAll(files) == files

\* files.filter(file => file.type === 'application/pdf')
RECURSIVE FilterPdf(_)
FilterPdf(files) ==
    IF files = <<>> THEN <<>>
    ELSE IF Head(files).type = PDF THEN <<Head(files)>> \o FilterPdf(Tail(files))
    ELSE FilterPdf(Tail(files))

\* the validation loop: the number of validatePDFFile calls it makes and the
\* 1-based index of the first invalid file (0 when every file is valid)
RECURSIVE FirstInvalid(_, _)
FirstInvalid(pdfFiles, k) ==
    IF k > Len(pdfFiles) THEN 0
    ELSE IF ~validatePDFFile(pdfFiles[k]).isValid THEN k
    ELSE FirstInvalid(pdfFiles, k + 1)

ValidationCalls(pdfFiles) ==
    IF FirstInvalid(pdfFiles, 1) = 0 THEN Len(pdfFiles) ELSE FirstInvalid(pdfFiles, 1)

ProcessedFile(name, extractedText, originalFile, processingTime) ==
    [name |-> name, extractedText |-> extractedText, originalFile |-> originalFile,
     processingTime |-> processingTime]

\* the `finally` block
UiReset(u) ==
    [u EXCEPT !.isProcessing = FALSE, !.processingProgress = Whole(0),
              !.processingStatus = NoStatus, !.currentFileName = ""]

\* the head of one iteration of the file loop: setCurrentFileName, startTime
\* and the call of extractTextWithProgress up to its first await
PfBeginFile(p, u, i) ==
    LET file == p.pdfFiles[i + 1]
        w == WpStarted(file, "processFiles", NoOptions)
    IN  [pf |-> [p EXCEPT !.pc = "extracting", !.i = i, !.startTime = now],
         wp |-> w,
         ui |-> ApplyProgress([u EXCEPT !.currentFileName = file.name],
                              WpIdle, w, i, p.pdfFiles)]

\* UiProcessingStarted that leaves isProcessing unset
UiProcessingStarted_FlagUnset(u) ==
    [u EXCEPT !.error = NoError,
              !.processingProgress = Whole(0),
              !.processingStatus = UiStatus("", Status("Starting PDF processing...", <<>>))]

\* setError(null); setIsProcessing(true); setProcessingProgress(0);
\* setProcessingStatus('Starting PDF processing...')
UiProcessingStarted(u) ==
    [u EXCEPT !.error = NoError,
              !.isProcessing = TRUE,
              !.processingProgress = Whole(0),
              !.processingStatus = UiStatus("", Status("Starting PDF processing...", <<>>))]

\* the drop zone takes a drop and the file input a selection only while
\* isProcessing is false (pointer-events-none, disabled)
DropZoneEnabled(u) == ~u.isProcessing

\* handleDrop / handleFileSelect: processFiles(files), up to its first await
\* or its return
PfStart(files) ==
    /\ DropZoneEnabled(ui)
    /\ LET pdfFiles == FilterPdf(files)
           p0 == [PfIdle EXCEPT !.files = files, !.pdfFiles = pdfFiles,
                                !.calls = pf.calls + 1]
       IN  IF Len(pdfFiles) = 0
           THEN /\ pf' = [p0 EXCEPT !.pc = "done"]
                /\ ui' = [ui EXCEPT !.error = <<"Please select valid PDF files only.">>]
                /\ UNCHANGED wp
           ELSE IF Len(pdfFiles) > MaxFilesAtOnce
           THEN /\ pf' = [p0 EXCEPT !.pc = "done"]
                /\ ui' = [ui EXCEPT !.error = <<"Maximum 10 files allowed at once.">>]
                /\ UNCHANGED wp
           ELSE IF FirstInvalid(pdfFiles, 1) # 0
           THEN /\ pf' = [p0 EXCEPT !.pc = "done",
                                    !.validated = ValidationCalls(pdfFiles)]
                /\ ui' = [ui EXCEPT !.error =
                              <<pdfFiles[FirstInvalid(pdfFiles, 1)].name, ": ",
                                validatePDFFile(pdfFiles[FirstInvalid(pdfFiles, 1)]).error>>]
                /\ UNCHANGED wp
           ELSE LET begun ==
                        PfBeginFile([p0 EXCEPT !.validated = ValidationCalls(pdfFiles)],
                                    UiProcessingStarted(ui), 0)
                IN  /\ pf' = begun.pf
                    /\ wp' = begun.wp
                    /\ ui' = begun.ui
    /\ UNCHANGED <<ext, cl, rec, val, det, delivered, now, exp, app>>

\* PfSettled whose catch block hands over the files extracted so far
PfSettled_DeliversPartial ==
    /\ pf.pc = "extracting"
    /\ wp.pc \in {"resolved", "rejected"}
    /\ IF wp.pc = "rejected"
       THEN \* catch (err): setError, setIsProcessing(false), return; finally
            /\ pf' = [pf EXCEPT !.pc = "done"]
            /\ ui' = UiReset([ui EXCEPT !.error =
                                 <<"Failed to process ", pf.pdfFiles[pf.i + 1].name, ": ">>
                                     \o wp.error])
            /\ delivered' = Append(delivered, pf.processedFiles)
            /\ app' = handleFilesProcessed(app, pf.processedFiles)
            /\ UNCHANGED wp
       ELSE LET file == pf.pdfFiles[pf.i + 1]
                processedFiles ==
                    Append(pf.processedFiles,
                           ProcessedFile(file.name, wp.result, file, now - pf.startTime))
                p1 == [pf EXCEPT !.processedFiles = processedFiles]
            IN  IF pf.i + 1 < Len(pf.pdfFiles)
                THEN LET begun == PfBeginFile(p1, ui, pf.i + 1)
                     IN  /\ pf' = begun.pf
                         /\ wp' = begun.wp
                         /\ ui' = begun.ui
                         /\ UNCHANGED <<delivered, app>>
                ELSE /\ pf' = [p1 EXCEPT !.pc = "done"]
                     /\ UNCHANGED wp
                     /\ delivered' = Append(delivered, processedFiles)
                     /\ app' = handleFilesProcessed(app, processedFiles)
                     /\ ui' = UiReset(ui)
    /\ UNCHANGED <<ext, cl, rec, val, det, now, exp>>

\* the awaited extractTextWithProgress promise has settled
PfSettled ==
    /\ pf.pc = "extracting"
    /\ wp.pc \in {"resolved", "rejected"}
    /\ IF wp.pc = "rejected"
       THEN \* catch (err): setError, setIsProcessing(false), return; finally
            /\ pf' = [pf EXCEPT !.pc = "done"]
            /\ ui' = UiReset([ui EXCEPT !.error =
                                 <<"Failed to process ", pf.pdfFiles[pf.i + 1].name, ": ">>
                                     \o wp.error])
            /\ UNCHANGED <<wp, delivered, app>>
       ELSE LET file == pf.pdfFiles[pf.i + 1]
                processedFiles ==
                    Append(pf.processedFiles,
                           ProcessedFile(file.name, wp.result, file, now - pf.startTime))
                p1 == [pf EXCEPT !.processedFiles = processedFiles]
            IN  IF pf.i + 1 < Len(pf.pdfFiles)
                THEN LET begun == PfBeginFile(p1, ui, pf.i + 1)
                     IN  /\ pf' = begun.pf
                         /\ wp' = begun.wp
                         /\ ui' = begun.ui
                         /\ UNCHANGED <<delivered, app>>
                ELSE /\ pf' = [p1 EXCEPT !.pc = "done"]
                     /\ UNCHANGED wp
                     /\ delivered' = Append(delivered, processedFiles)
                     /\ app' = handleFilesProcessed(app, processedFiles)
                     /\ ui' = UiReset(ui)
    /\ UNCHANGED <<ext, cl, rec, val, det, now, exp>>

(***************************************************************************)
(* A validatePDFFile call                                                  *)
(***************************************************************************)
ValIdle == [called |-> FALSE, file |-> NullFile, result |-> Valid]

Validate(file) ==
    /\ ~val.called
    /\ val' = [called |-> TRUE, file |-> file, result |-> validatePDFFile(file)]
    /\ UNCHANGED <<ext, cl, rec, det, wp, pf, ui, delivered, now, exp, app>>

(***************************************************************************)
(* extractTextFromPDF                                                      *)
(***************************************************************************)
ExtIdle == [pc |-> "idle", result |-> <<>>, error |-> <<>>]

\* the call: extractDetailedTextFromPDF(file, options) is called and awaited
ExtCall(file, options) ==
    /\ ext.pc = "idle"
    /\ det.pc = "idle"
    /\ ext' = [ExtIdle EXCEPT !.pc = "awaiting"]
    /\ det' = [DetIdle EXCEPT !.pc = "read", !.file = file, !.options = options]
    /\ UNCHANGED <<cl, rec, val, wp, pf, ui, delivered, now, exp, app>>

\* the awaited promise has settled: return extractedData.text, or the catch
ExtSettled ==
    /\ ext.pc = "awaiting"
    /\ det.pc \in {"resolved", "rejected"}
    /\ ext' = IF det.pc = "resolved"
              THEN [ext EXCEPT !.pc = "resolved", !.result = det.result.text]
              ELSE [ext EXCEPT !.pc = "rejected",
                               !.error = <<"Failed to extract text from PDF. Please ensure the file is a valid PDF document.">>]
    /\ UNCHANGED <<cl, rec, val, det, wp, pf, ui, delivered, now, exp, app>>

(***************************************************************************)
(* Calls of the two pure functions                                         *)
(***************************************************************************)
ClIdle == [applied |-> 0, text |-> <<>>, once |-> <<>>, twice |-> <<>>]

\* cleanExtractedText(text)
Clean(text) ==
    /\ cl.applied = 0
    /\ cl' = [ClIdle EXCEPT !.applied = 1, !.text = text, !.once = cleanExtractedText(text)]
    /\ UNCHANGED <<ext, rec, val, det, wp, pf, ui, delivered, now, exp, app>>

\* cleanExtractedText applied to the result of the first call
CleanAgain ==
    /\ cl.applied = 1
    /\ cl' = [cl EXCEPT !.applied = 2, !.twice = cleanExtractedText(cl.once)]
    /\ UNCHANGED <<ext, rec, val, det, wp, pf, ui, delivered, now, exp, app>>

RecIdle ==
    [called |-> FALSE, textContent |-> NoItems, options |-> DefaultOptions,
     texts |-> <<>>, raw |-> <<>>, result |-> Returned(<<>>),
     again |-> FALSE, withoutBlanks |-> Returned(<<>>)]

\* the text accumulated by the loop of processTextContent, before the cleanup
RawText(textContent, options) ==
    IF textContent.missing THEN <<>>
    ELSE ProcessItems(textContent.items, options, 0, <<>>, Null, Null).text

\* the value of the variable text at the end of each iteration of the loop
TextsAfter(textContent, options) ==
    [k \in 1..Len(textContent.items) |->
        ProcessItems(SubSeq(textContent.items, 1, k), options, 0, <<>>, Null, Null).text]

\* processTextContent(textContent, options)
Reconstruct(textContent, options) ==
    /\ ~rec.called
    /\ rec' = [called |-> TRUE, textContent |-> textContent, options |-> options,
               texts |-> TextsAfter(textContent, options),
               raw |-> RawText(textContent, options),
               result |-> processTextContent(textContent, options),
               again |-> FALSE, withoutBlanks |-> Returned(<<>>)]
    /\ UNCHANGED <<ext, cl, val, det, wp, pf, ui, delivered, now, exp, app>>

\* the items whose str.trim() is not empty, in their order
WithoutBlanks(textContent) ==
    IF textContent.missing THEN textContent
    ELSE TextContent(SelectSeq(textContent.items, LAMBDA item : Trim(item.str) # <<>>))

\* processTextContent called on the same items less the blank ones, with the
\* same options
ReconstructWithoutBlanks ==
    /\ rec.called
    /\ ~rec.again
    /\ rec' = [rec EXCEPT !.again = TRUE,
                          !.withoutBlanks =
                              processTextContent(WithoutBlanks(rec.textContent),
                                                 rec.options)]
    /\ UNCHANGED <<ext, cl, val, det, wp, pf, ui, delivered, now, exp, app>>

(***************************************************************************)
(* Inputs                                                                  *)
(***************************************************************************)
SizeSamples ==
    {0, 1, 100, 1024 * 1024, 10 * 1024 * 1024, MaxFileSize - 1, MaxFileSize, MaxFileSize + 1,
     2 * MaxFileSize}
TypeSamples == {PDF, "text/plain", "image/png", ""}
NameSamples == {"a.pdf", "b.txt", "c"}

PlainContent == Content(TRUE, TRUE, <<PgHello>>, MetaBare)

ValidateInputs ==
    {NullFile} \cup
    { File(name, type, size, PlainContent) :
          name \in NameSamples, type \in TypeSamples, size \in SizeSamples }

\* files that the validation gate turns away
TextFile == File("notes.txt", "text/plain", 100, PlainContent)
HugePdf == File("huge.pdf", PDF, MaxFileSize + 1, PlainContent)
EmptyPdf == File("empty.pdf", PDF, 0, PlainContent)

DetFiles ==
    {NullFile, TextFile, HugePdf}
        \cup { File("doc.pdf", PDF, 100, c) : c \in Contents }

WpFiles ==
    {NullFile, TextFile, HugePdf, EmptyPdf}
        \cup { File("doc.pdf", PDF, 100, c) : c \in { d \in Contents : d.meta = MetaBare } }

\* the files batches are made of
GoodPdf == File("good.pdf", PDF, 100, PlainContent)
TwoPagePdf == File("two.pdf", PDF, 2048, Content(TRUE, TRUE, <<PgLines, PgHello>>, MetaBare))
BadPagePdf == File("badpage.pdf", PDF, 100, Content(TRUE, TRUE, <<PgHello, PgFetchThrows>>, MetaBare))
CorruptPdf == File("corrupt.pdf", PDF, 100, Content(TRUE, FALSE, <<>>, MetaBare))
BatchFiles == {GoodPdf, TwoPagePdf, BadPagePdf, CorruptPdf, TextFile, HugePdf, EmptyPdf}

\* n copies of base, with the file at position j replaced by other
Batch(n, base, j, other) == [k \in 1..n |-> IF k = j THEN other ELSE base]

Batches ==
    { Batch(n, base, j, other) :
          n \in 0..MaxBatch, base \in BatchFiles, j \in 1..MaxBatch, other \in BatchFiles }

\* the strings handed to cleanExtractedText
TextAlphabet == {"a", SP, TAB, NL, CR}
WhitespaceRuns == UNION { [1..n -> {SP, TAB, NL, CR}] : n \in 0..MaxTextLen }
TextSamples ==
    UNION { [1..n -> TextAlphabet] : n \in 0..MaxTextLen }
        \cup { <<"a">> \o run \o <<"a">> : run \in WhitespaceRuns }

\* text items: a fragment with or without spaces around it, at a position
\* of the page, 5 units wide; and an item of one space
FragmentStrs == {<<"a">>, <<SP, EAcute, SP>>}
FragmentPositions ==
    {<<0, 100>>, <<25, 100>>, <<26, 100>>, <<26, 105>>, <<26, 106>>}
Fragments == { Item(str, pos[1], pos[2], 5) : str \in FragmentStrs, pos \in FragmentPositions }
BlankItem == Item(<<SP>>, 0, 130, 5)
FragmentSeqs == UNION { [1..n -> Fragments] : n \in 0..MaxFragments }
InsertAt(seq, p, item) == SubSeq(seq, 1, p) \o <<item>> \o SubSeq(seq, p + 1, Len(seq))
ItemSeqs ==
    FragmentSeqs
        \cup UNION { { InsertAt(seq, p, BlankItem) : p \in 0..Len(seq) } : seq \in FragmentSeqs }
TextContentSamples == {NoItems} \cup { TextContent(items) : items \in ItemSeqs }
ReconstructOptions ==
    { options \in TextExtractionOptions : options.includeMetadata }

\* short batches, for runs of several batches
SmallBatchFiles == {GoodPdf, BadPagePdf, TextFile, HugePdf}
SmallBatches == UNION { [1..n -> SmallBatchFiles] : n \in 0..MaxSmallBatch }

\* the option values of the runs that put the three entry points side by side
OptionSamples ==
    {DefaultOptions,
     [preserveFormatting |-> FALSE, includeMetadata |-> FALSE, combineTextItems |-> FALSE]}

(***************************************************************************)
(* Specifications                                                          *)
(***************************************************************************)
Init ==
    /\ val = ValIdle
    /\ det = DetIdle
    /\ wp = WpIdle
    /\ pf = PfIdle
    /\ ui = UiInit
    /\ delivered = <<>>
    /\ now = 0
    /\ ext = ExtIdle
    /\ cl = ClIdle
    /\ rec = RecIdle
    /\ exp = ExpInit
    /\ app = AppInit

NextValidate == \E file \in ValidateInputs : Validate(file)

SpecValidate == Init /\ [][NextValidate]_vars

NextDetailed ==
    \/ \E file \in DetFiles, options \in TextExtractionOptions : DetCall(file, options)
    \/ DetRead
    \/ DetLoad
    \/ DetMetadata
    \/ DetPage

SpecDetailed == Init /\ [][NextDetailed]_vars

NextProgress ==
    \/ \E file \in WpFiles, onProgress \in {"undefined", "observer"},
          options \in TextExtractionOptions \cup {NoOptions} :
           WpCall(file, onProgress, options)
    \/ WpRead
    \/ WpLoad
    \/ WpPage

SpecProgress == Init /\ [][NextProgress]_vars

NextBatch ==
    \/ \E files \in Batches : pf.calls = 0 /\ PfStart(files)
    \/ WpRead
    \/ WpLoad
    \/ WpPage
    \/ PfSettled

SpecBatch == Init /\ [][NextBatch]_vars

NextClean ==
    \/ \E text \in TextSamples : Clean(text)
    \/ CleanAgain

SpecClean == Init /\ [][NextClean]_vars

NextReconstruct ==
    \/ \E textContent \in TextContentSamples, options \in ReconstructOptions :
           Reconstruct(textContent, options)
    \/ ReconstructWithoutBlanks

SpecReconstruct == Init /\ [][NextReconstruct]_vars

\* up to MaxExports clicks on the export buttons, their timers and new props
NextExport ==
    \/ \E format \in ExportFormats : exp.clicks < MaxExports /\ HandleExport(format)
    \/ ExportTimer
    \/ \E text \in {<<>>, <<"a">>} : ExportPanelProps(text)

SpecExport == Init /\ [][NextExport]_vars

\* up to MaxRuns batches dropped on the upload component, one after another
\* or, where the component lets it happen, on top of one another
NextUpload ==
    \/ \E files \in SmallBatches : pf.calls < MaxRuns /\ PfStart(files)
    \/ WpRead
    \/ WpLoad
    \/ WpPage
    \/ PfSettled

SpecUpload == Init /\ [][NextUpload]_vars

\* the same with the file list and the editor of App in use
EditorTexts == {<<>>, <<"x">>}

NextApp ==
    \/ \E files \in SmallBatches : pf.calls < MaxRuns /\ PfStart(files)
    \/ WpRead
    \/ WpLoad
    \/ WpPage
    \/ PfSettled
    \/ \E index \in 0..(MaxSmallBatch - 1) : SetActiveFileIndex(index)
    \/ \E newText \in EditorTexts : TextChange(newText)

SpecApp == Init /\ [][NextApp]_vars

\* one call of one of the three extraction entry points
NextExtraction ==
    \/ \E file \in DetFiles, options \in OptionSamples :
           wp.pc = "idle" /\ DetCall(file, options)
    \/ \E file \in DetFiles, options \in OptionSamples :
           wp.pc = "idle" /\ ExtCall(file, options)
    \/ DetRead
    \/ DetLoad
    \/ DetMetadata
    \/ DetPage
    \/ ExtSettled
    \/ \E file \in WpFiles, options \in OptionSamples \cup {NoOptions} :
           det.pc = "idle" /\ WpCall(file, "observer", options)
    \/ WpRead
    \/ WpLoad
    \/ WpPage

SpecExtraction == Init /\ [][NextExtraction]_vars

\* extractTextFromPDF, and once it has settled extractTextWithProgress, on the
\* same file with the same options (or with none, where they are the default)
SameOptions(options) ==
    {options} \cup (IF options = DefaultOptions THEN {NoOptions} ELSE {})

NextCompare ==
    \/ \E file \in DetFiles, options \in OptionSamples : ExtCall(file, options)
    \/ DetRead
    \/ DetLoad
    \/ DetMetadata
    \/ DetPage
    \/ ExtSettled
    \/ \E options \in SameOptions(det.options) :
           ext.pc \in {"resolved", "rejected"} /\ WpCall(det.file, "observer", options)
    \/ WpRead
    \/ WpLoad
    \/ WpPage

SpecCompare == Init /\ [][NextCompare]_vars

(***************************************************************************)
(* Properties of extractDetailedTextFromPDF (SpecDetailed)                 *)
(***************************************************************************)
\* the call has got past reading and opening the document of its file
DetOpened ==
    /\ det.pc \in {"metadata", "page", "resolved", "rejected"}
    /\ ReadFailure(det.file) = undefined
    /\ LoadFailure(det.file) = undefined

\* the pages of the file whose fetch or reconstruction throws
FailingPages(file, options) ==
    { i \in 1..numPages(file) : PageOutcome(file, options, i).throws }

\* the text the reconstructor gives page i of the file on its own
OwnPageText(file, options, i) ==
    processTextContent(file.content.pages[i].textContent, options).text

\* C1: in extractDetailed over a document of n > 1 pages of which exactly one
\* page k throws, the call is never rejected, it has resolved once the loop
\* is past the last page, and every page other than k carries the text the
\* reconstructor gives that page on its own, which is not the sentinel.
PartialFailureContainment ==
    (DetOpened /\ numPages(det.file) > 1
        /\ Cardinality(FailingPages(det.file, det.options)) = 1)
    => /\ det.pc # "rejected"
       /\ det.pageNum > numPages(det.file) => det.pc = "resolved"
       /\ \A i \in 1..Len(det.pages) :
              i \notin FailingPages(det.file, det.options)
              => /\ det.pages[i].text = OwnPageText(det.file, det.options, i)
                 /\ det.pages[i].text # ErrorPlaceholder(i)
       /\ det.pc = "resolved"
          => /\ Len(det.result.pages) = numPages(det.file)
             /\ \A i \in 1..numPages(det.file) :
                    i \notin FailingPages(det.file, det.options)
                    => det.result.pages[i].text = OwnPageText(det.file, det.options, i)

\* a 3-page document whose page 2 alone failed has resolved with the texts
\* of pages 1 and 3
PartialFailureWitness ==
    /\ det.pc = "resolved"
    /\ numPages(det.file) = 3
    /\ FailingPages(det.file, det.options) = {2}
    /\ det.result.pages[1].text = <<"H", "i", SP, "y", "o">>
    /\ det.result.pages[3].text = <<"a", NL, "b">>

\* C3: the DocumentResult of extractDetailed has as many page entries as the
\* document has pages (zero included), and the i-th entry has pageNumber i,
\* whatever pages failed; while the loop runs, the entries pushed so far are
\* those of pages 1..pageNum-1.
PageCountInvariant ==
    /\ det.pc = "page"
       => /\ Len(det.pages) = det.pageNum - 1
          /\ \A i \in 1..Len(det.pages) : det.pages[i].pageNumber = i
    /\ det.pc = "resolved"
       => /\ Len(det.result.pages) = numPages(det.file)
          /\ \A i \in 1..Len(det.result.pages) : det.result.pages[i].pageNumber = i

\* a resolved 3-page document with a failed and an extracted page
PageCountWitness ==
    /\ det.pc = "resolved"
    /\ Len(det.result.pages) = 3
    /\ FailingPages(det.file, det.options) = {1, 3}

\* C6 as stated: every page entry, failed pages included, has characterCount
\* equal to the length of its text.
CharacterCountIsTextLength ==
    \A i \in 1..Len(det.pages) : det.pages[i].characterCount = Len(det.pages[i].text)

\* C6 amended: the entry of a page that was extracted has characterCount
\* equal to the length of its text; the entry of a failed page has
\* characterCount 0 although its text, the sentinel, is not empty.
CharacterCountOfExtractedPages ==
    \A i \in 1..Len(det.pages) :
        IF i \in FailingPages(det.file, det.options)
        THEN det.pages[i].characterCount = 0 /\ Len(det.pages[i].text) > 0
        ELSE det.pages[i].characterCount = Len(det.pages[i].text)

\* a resolved document with a failed page and an extracted page of 5 characters
CharacterCountWitness ==
    /\ det.pc = "resolved"
    /\ \E i, j \in 1..Len(det.result.pages) :
           /\ i \in FailingPages(det.file, det.options)
           /\ j \notin FailingPages(det.file, det.options)
           /\ det.result.pages[j].characterCount = 5

\* "[Error extracting text from page 2]", written out
SentinelOfPage2 ==
    <<"[", "E", "r", "r", "o", "r", " ", "e", "x", "t", "r", "a", "c", "t", "i", "n", "g",
      " ", "t", "e", "x", "t", " ", "f", "r", "o", "m", " ", "p", "a", "g", "e", " ", "2", "]">>

\* C7: when the fetch or reconstruction of page N throws, the step pushes the
\* entry with text "[Error extracting text from page N]" and characterCount 0
\* at position N, and the loop goes on with page N+1 (or resolves after the
\* last page).
SentinelOnFailure ==
    [][(det.pc = "page" /\ det.pageNum \in FailingPages(det.file, det.options))
       => /\ Len(det'.pages) = det.pageNum
          /\ det'.pages[det.pageNum].text = ErrorPlaceholder(det.pageNum)
          /\ det.pageNum = 2 => det'.pages[2].text = SentinelOfPage2
          /\ det'.pages[det.pageNum].characterCount = 0
          /\ det'.pageNum = det.pageNum + 1
          /\ det'.pc = IF det.pageNum < numPages(det.file) THEN "page" ELSE "resolved"]_vars

\* page 2 of 3 failed and page 3 was extracted after it
SentinelWitness ==
    /\ det.pc = "resolved"
    /\ numPages(det.file) = 3
    /\ 2 \in FailingPages(det.file, det.options)
    /\ det.result.pages[2].text = SentinelOfPage2
    /\ det.result.pages[2].characterCount = 0
    /\ det.result.pages[3].text = <<"H", "i", "y", "o">>

(***************************************************************************)
(* Properties of extractTextWithProgress (SpecProgress)                    *)
(***************************************************************************)
\* the percent values passed to onProgress so far
Percents == [k \in 1..Len(wp.calls) |-> wp.calls[k].progress]

\* C2 as stated: extractWithProgress is rejected only for a validation
\* failure or a failure to read or open the document; a page failure is
\* absorbed and never rejects the call.
OnlyValidationOrLoadRejects ==
    wp.pc = "rejected"
    => \/ ~validatePDFFile(wp.file).isValid
       \/ ReadFailure(wp.file) # undefined
       \/ LoadFailure(wp.file) # undefined

\* C4: on a successful call over n >= 1 pages with an onProgress sink, each
\* percent value is strictly greater than the one before it and every value
\* lies in [0,100].
ProgressStrictlyIncreasing ==
    (wp.pc = "resolved" /\ wp.totalPages >= 1)
    => /\ \A k \in 1..(Len(Percents) - 1) : FracLess(Percents[k], Percents[k + 1])
       /\ \A k \in 1..Len(Percents) :
              FracLeq(Whole(0), Percents[k]) /\ FracLeq(Percents[k], Whole(100))

\* a successful 3-page call reported 10, 20, 30, 40, 56.67, 73.33, 90, 95, 100
ProgressIncreasingWitness ==
    /\ wp.pc = "resolved"
    /\ wp.totalPages = 3
    /\ Len(Percents) = 9
    /\ Percents[5] = Plus(Whole(40), Times(Frac(1, 3), 50))

\* C5: on a successful call over n pages onProgress was invoked n + 6 times:
\* 10, 20, 30, 40, then 40 + (k/n)*50 after page k for k = 1..n, then 95 and
\* last 100; and a call that has reported 100 has processed every page.
ProgressMilestones ==
    /\ (wp.pc = "resolved" /\ wp.onProgress # "undefined")
       => LET n == wp.totalPages
          IN  /\ Len(Percents) = n + 6
              /\ Percents[1] = Whole(10)
              /\ Percents[2] = Whole(20)
              /\ Percents[3] = Whole(30)
              /\ Percents[4] = Whole(40)
              /\ \A k \in 1..n :
                     Percents[4 + k] = Plus(Whole(40), Times(Frac(k, n), 50))
              /\ Percents[n + 5] = Whole(95)
              /\ Percents[n + 6] = Whole(100)
    /\ \A k \in 1..Len(Percents) :
           FracEq(Percents[k], Whole(100))
           => k = Len(Percents) /\ wp.pageNum = wp.totalPages + 1 /\ wp.pc = "resolved"

\* a successful 2-page call: six milestones and the two page reports 65, 90
ProgressMilestonesWitness ==
    /\ wp.pc = "resolved"
    /\ wp.totalPages = 2
    /\ Len(Percents) = 8
    /\ FracEq(Percents[5], Whole(65))
    /\ FracEq(Percents[6], Whole(90))
    /\ Percents[8] = Whole(100)

(***************************************************************************)
(* Properties of validatePDFFile (SpecValidate)                            *)
(***************************************************************************)
\* C8: validate reports the first failing rule in the order missing
\* descriptor, wrong type, oversize, empty; so a file that is both wrong-type
\* and oversize, or wrong-type and of size 0, is rejected for its type.
ValidationOrdering ==
    val.called
    => /\ val.file.null => val.result = Invalid("No file provided")
       /\ (~val.file.null /\ val.file.type # PDF)
          => val.result = Invalid("File must be a PDF document")
       /\ (~val.file.null /\ val.file.type = PDF /\ val.file.size > 52428800)
          => val.result = Invalid("File size must be less than 50MB")
       /\ (~val.file.null /\ val.file.type = PDF /\ val.file.size <= 52428800
              /\ val.file.size = 0)
          => val.result = Invalid("File appears to be empty")

\* a wrong-type file above the ceiling was rejected for its type
ValidationOrderingWitness ==
    /\ val.called
    /\ val.file.type = "text/plain"
    /\ val.file.size > 52428800
    /\ val.result.error = "File must be a PDF document"

RejectedBeforeValidation ==
    /\ pf.pc = "done"
    /\ ui.error # NoError
    /\ pf.validated = 0
    /\ wp.pc = "idle"
    /\ ~ui.isProcessing
    /\ delivered = <<>>

\* the PDF-typed files of a batch, counted without the filter
PdfCount(files) == Cardinality({ k \in 1..Len(files) : files[k].type = PDF })

\* C10 as stated: every batch of more than 10 files is rejected before any
\* per-file validation or extraction, whatever the types of its files.
BatchCapCountsAllFiles ==
    (pf.pc # "idle" /\ Len(pf.files) > 10) => RejectedBeforeValidation

\* C10 amended: every batch holding more than 10 files of type
\* application/pdf is rejected with "Maximum 10 files allowed at once." before
\* any per-file validation or extraction; files of other types are dropped
\* before the count, and a batch without any PDF file is rejected as well.
BatchCapCountsPdfFiles ==
    /\ (pf.pc # "idle" /\ PdfCount(pf.files) > 10)
       => /\ RejectedBeforeValidation
          /\ ui.error = <<"Maximum 10 files allowed at once.">>
    /\ (pf.pc # "idle" /\ PdfCount(pf.files) = 0)
       => /\ RejectedBeforeValidation
          /\ ui.error = <<"Please select valid PDF files only.">>
    /\ pf.pc # "idle" => Len(pf.pdfFiles) = PdfCount(pf.files)

\* a batch of 11 PDF files, one of them oversize, was turned away by the cap
BatchCapWitness ==
    /\ pf.pc = "done"
    /\ PdfCount(pf.files) = 11
    /\ \E k \in 1..Len(pf.files) : pf.files[k] = HugePdf
    /\ ui.error = <<"Maximum 10 files allowed at once.">>
    /\ pf.validated = 0

(***************************************************************************)
(* Properties of the three entry points together (SpecExtraction)          *)
(***************************************************************************)
\* C11: no entry point reads the bytes or opens the document of a file that
\* fails the validation gate: a call on such a file is rejected, with the
\* reason the gate gives, without passing through a read or load step.
NoLoadBeforeValidation ==
    /\ (det.pc # "idle" /\ ~validatePDFFile(det.file).isValid)
       => /\ det.pc = "rejected"
          /\ det.error[2] = validatePDFFile(det.file).error
    /\ (wp.pc # "idle" /\ ~validatePDFFile(wp.file).isValid)
       => /\ wp.pc = "rejected"
          /\ wp.error[2] = validatePDFFile(wp.file).error

\* "\n\n--- Page N ---\n\n" for a one-digit N, written out
MarkerOfPage(N) ==
    <<"\n", "\n", "-", "-", "-", " ", "P", "a", "g", "e", " ",
      <<"1", "2", "3", "4", "5", "6", "7", "8", "9">>[N],
      " ", "-", "-", "-", "\n", "\n">>

\* a text without any character other than whitespace
IsBlank(text) == \A k \in 1..Len(text) : IsWhitespace(text[k])

\* what page N of the file is to add to the document text: nothing when the
\* page fails; otherwise its text, after its marker when N > 1 and the text
\* is not blank
ExpectedContribution(file, options, N) ==
    IF N \in FailingPages(file, options) THEN <<>>
    ELSE IF N > 1 /\ ~IsBlank(OwnPageText(file, options, N))
         THEN MarkerOfPage(N) \o OwnPageText(file, options, N)
         ELSE OwnPageText(file, options, N)

\* C12: in both page loops the step of page N appends to the document text
\* the marker "\n\n--- Page N ---\n\n", with that page's own number, followed
\* by the page's text exactly when N > 1 and page N was extracted with
\* non-blank text; otherwise it appends the page's text without a marker
\* (page 1, blank pages) or nothing (failed pages).  Pages being handled in
\* ascending order, so are the markers.
MarkerPlacement ==
    [][/\ (det.pc = "page" /\ det' # det)
          => /\ det'.fullText
                  = det.fullText \o ExpectedContribution(det.file, det.options, det.pageNum)
             /\ det'.pageNum = det.pageNum + 1
       /\ (wp.pc = "page" /\ wp' # wp)
          => /\ wp'.fullText
                  = wp.fullText \o ExpectedContribution(wp.file, wp.options, wp.pageNum)
             /\ wp'.pc # "rejected" => wp'.pageNum = wp.pageNum + 1]_vars

\* "Hi yo", a blank page 2 without marker, then the marker of page 3 and "a\nb"
MarkerPlacementWitness ==
    /\ wp.pc = "resolved"
    /\ wp.totalPages = 3
    /\ wp.fullText = <<"H", "i", " ", "y", "o">> \o MarkerOfPage(3) \o <<"a", "\n", "b">>

(***************************************************************************)
(* More properties of extractDetailedTextFromPDF (SpecDetailed)            *)
(***************************************************************************)
\* sub occurs in s as a contiguous run
Contains(s, sub) ==
    \E k \in 0..(Len(s) - Len(sub)) : SubSeq(s, k + 1, k + Len(sub)) = sub

\* the text holds a page-boundary marker ("--- Page " is the part of it that
\* the final trim cannot remove)
HasMarker(text) == Contains(text, <<"-", "-", "-", " ", "P", "a", "g", "e", " ">>)

\* the pages that were extracted with non-blank text
NonBlankPages(file, options) ==
    { i \in 1..numPages(file) :
          i \notin FailingPages(file, options) /\ ~IsBlank(OwnPageText(file, options, i)) }

\* C13 as stated: the document text holds a marker only when more than one
\* page contributed non-blank text.
MarkerOnlyWithSeveralPages ==
    (det.pc = "resolved" /\ HasMarker(det.result.text))
    => Cardinality(NonBlankPages(det.file, det.options)) > 1

\* C13 amended: the document text holds a marker exactly when some page
\* N > 1 was extracted with non-blank text, whatever the other pages gave; a
\* document whose page 1 is blank and whose page 2 alone is non-blank yields
\* the text "--- Page 2 ---\n\n" followed by the text of page 2.
MarkerWithAnyLaterPage ==
    det.pc = "resolved"
    => /\ HasMarker(det.result.text)
          <=> (\E N \in NonBlankPages(det.file, det.options) : N > 1)
       /\ (numPages(det.file) = 2 /\ NonBlankPages(det.file, det.options) = {2}
              /\ 1 \notin FailingPages(det.file, det.options))
          => det.result.text
                 = <<"-", "-", "-", " ", "P", "a", "g", "e", " ", "2", " ", "-", "-", "-",
                     "\n", "\n">> \o OwnPageText(det.file, det.options, 2)

\* page 1 blank, page 2 "Hi yo": the text is the marker of page 2 and "Hi yo"
MarkerWithAnyLaterPageWitness ==
    /\ det.pc = "resolved"
    /\ numPages(det.file) = 2
    /\ det.result.pages[1].text = <<>>
    /\ det.result.text
           = <<"-", "-", "-", " ", "P", "a", "g", "e", " ", "2", " ", "-", "-", "-",
               "\n", "\n", "H", "i", " ", "y", "o">>

(***************************************************************************)
(* Rejections of the three entry points (SpecExtraction)                   *)
(***************************************************************************)
\* the file cannot be read or opened as a document at all
CannotOpen(file) == ReadFailure(file) # undefined \/ LoadFailure(file) # undefined

\* the message of the error that reading or opening the file raises
OpenFailure(file) ==
    IF ReadFailure(file) # undefined THEN ReadFailure(file) ELSE LoadFailure(file)

\* the pieces a message is made of
Pieces(message) == { message[k] : k \in 1..Len(message) }

\* C14 as stated: when the document cannot be opened, each of extractText,
\* extractDetailed and extractWithProgress rejects with a message that
\* includes the message of the original cause.
CauseInEveryRejection ==
    /\ (det.pc = "rejected" /\ CannotOpen(det.file))
       => OpenFailure(det.file) \in Pieces(det.error)
    /\ (wp.pc = "rejected" /\ validatePDFFile(wp.file).isValid /\ CannotOpen(wp.file))
       => OpenFailure(wp.file) \in Pieces(wp.error)
    /\ (ext.pc = "rejected" /\ CannotOpen(det.file))
       => OpenFailure(det.file) \in Pieces(ext.error)

\* C14 amended: when the document cannot be opened, extractDetailed rejects
\* with "PDF processing failed: <cause>" and extractWithProgress with
\* "PDF text extraction failed: <cause>"; extractText rejects with the fixed
\* message "Failed to extract text from PDF. Please ensure the file is a valid
\* PDF document.", which does not include the cause.  None of them resolves.
CauseInDetailedAndProgressRejection ==
    /\ (det.pc \in {"resolved", "rejected"} /\ CannotOpen(det.file))
       => /\ det.pc = "rejected"
          /\ det.error = <<"PDF processing failed: ", OpenFailure(det.file)>>
    /\ (wp.pc \in {"resolved", "rejected"} /\ validatePDFFile(wp.file).isValid
           /\ CannotOpen(wp.file))
       => /\ wp.pc = "rejected"
          /\ wp.error = <<"PDF text extraction failed: ", OpenFailure(wp.file)>>
    /\ (ext.pc \in {"resolved", "rejected"} /\ CannotOpen(det.file))
       => /\ ext.pc = "rejected"
          /\ ext.error = <<"Failed to extract text from PDF. Please ensure the file is a valid PDF document.">>
          /\ OpenFailure(det.file) \notin Pieces(ext.error)

\* extractText on a readable file that getDocument cannot open: the inner
\* rejection names the cause, the outer one does not
CauseInRejectionWitness ==
    /\ ext.pc = "rejected"
    /\ det.file.content.readable
    /\ det.error = <<"PDF processing failed: ", "Invalid PDF structure">>

(***************************************************************************)
(* Metadata of extractDetailedTextFromPDF (SpecDetailed)                   *)
(***************************************************************************)
\* C15: with includeMetadata a failing metadata fetch never rejects the call
\* nor stops the page loop, and the metadata is then exactly {pageCount}
\* with the document's page count; with includeMetadata and no failure the
\* metadata has pageCount equal to the page count; without includeMetadata
\* the metadata is absent.
MetadataDegradation ==
    /\ (DetOpened /\ det.pc # "metadata")
       => /\ det.pc # "rejected"
          /\ IF ~det.options.includeMetadata
             THEN det.metadata = [present |-> FALSE]
             ELSE IF det.file.content.meta.throws
             THEN det.metadata = [present |-> TRUE, pageCount |-> Len(det.file.content.pages)]
             ELSE /\ det.metadata.present
                  /\ det.metadata.pageCount = Len(det.file.content.pages)
                  /\ DOMAIN det.metadata
                         = {"present", "pageCount", "title", "author", "subject", "creator",
                            "producer", "creationDate", "modificationDate"}
    /\ det.pc = "resolved"
       => /\ det.result.metadata = det.metadata
          /\ Len(det.result.pages) = Len(det.file.content.pages)

\* a 3-page document whose metadata fetch failed resolved with {pageCount: 3}
\* and the text of its pages
MetadataDegradationWitness ==
    /\ det.pc = "resolved"
    /\ det.options.includeMetadata
    /\ det.file.content.meta.throws
    /\ det.result.metadata = [present |-> TRUE, pageCount |-> 3]
    /\ det.result.pages[3].text = <<"a", "\n", "b">>

(***************************************************************************)
(* Properties of the upload component over several batches (SpecUpload)    *)
(***************************************************************************)
\* an extractTextWithProgress call is between its first await and its settling
InFlight(w) == w.pc \in {"read", "load", "page"}

\* C16: at most one extraction is in flight.  A step that calls
\* extractTextWithProgress (for the first file of a new batch or the next file
\* of the running one) is taken only when no earlier call is in flight; a step
\* that starts a batch is taken only when no batch is being processed; and
\* while an extraction is in flight its batch is the one being processed and
\* isProcessing keeps the drop zone and the file input shut.
OneExtractionInFlight ==
    [][/\ (pf'.pc = "extracting" /\ (pf'.calls # pf.calls \/ pf'.i # pf.i))
          => ~InFlight(wp)
       /\ pf'.calls # pf.calls => pf.pc # "extracting"
       /\ InFlight(wp) => (pf.pc = "extracting" /\ ui.isProcessing)
       /\ InFlight(wp') => (pf'.pc = "extracting" /\ ui'.isProcessing)]_vars

\* the second file of a second batch is in flight
OneExtractionInFlightWitness ==
    /\ pf.calls = 2
    /\ pf.pc = "extracting"
    /\ pf.i = 1
    /\ wp.pc = "page"
    /\ ui.isProcessing

\* the contributions of pages 1..n one after another; a failing page has none
RECURSIVE AssembledUpTo(_, _, _)
AssembledUpTo(file, options, n) ==
    IF n = 0 THEN <<>>
    ELSE AssembledUpTo(file, options, n - 1) \o ExpectedContribution(file, options, n)

\* "--- Page N ---", the part of the marker that a trim leaves
MarkerLine(N) == SubSeq(MarkerOfPage(N), 3, Len(MarkerOfPage(N)) - 2)

\* C26: in extractDetailed a failed page adds nothing to the document text:
\* the text is what the successful pages alone give, each under its own page
\* number, and holds neither a sentinel nor the marker of a failed page.
FailedPagesLeftOut ==
    det.pc = "resolved" =>
        /\ det.result.text
               = Trim(AssembledUpTo(det.file, det.options, numPages(det.file)))
        /\ ~Contains(det.result.text, <<"[", "E", "r", "r", "o", "r">>)
        /\ \A k \in FailingPages(det.file, det.options) :
               ~Contains(det.result.text, MarkerLine(k))

\* page 2 of three fails: the text is page 1, the marker of page 3 and page 3
FailedPagesLeftOutWitness ==
    /\ det.pc = "resolved"
    /\ det.options = DefaultOptions
    /\ det.file.content.pages = <<PgHello, PgFetchThrows, PgLines>>
    /\ FailingPages(det.file, det.options) = {2}
    /\ det.pages[2].text = ErrorPlaceholder(2)
    /\ det.result.text
           = <<"H", "i", " ", "y", "o">> \o MarkerOfPage(3) \o <<"a", "\n", "b">>

\* the files of type application/pdf, in input order
PdfFilesOf(files) == SelectSeq(files, LAMBDA file : file.type = PDF)

AllSucceed(pdfFiles) ==
    \A k \in 1..Len(pdfFiles) :
        /\ validatePDFFile(pdfFiles[k]).isValid
        /\ ReadFailure(pdfFiles[k]) = undefined
        /\ LoadFailure(pdfFiles[k]) = undefined
        /\ FailingPages(pdfFiles[k], DefaultOptions) = {}

\* C28: during a batch of files that all succeed, the aggregate progress
\* (i/N)*100 + p/N that processFiles sets never decreases, never exceeds 100,
\* and is exactly 100 once the last file has made its final callback.
AggregateProgress ==
    [][(pf'.pc = "extracting" /\ AllSucceed(pf'.pdfFiles)) =>
           /\ pf.pc = "extracting"
                  => FracLeq(ui.processingProgress, ui'.processingProgress)
           /\ FracLeq(ui'.processingProgress, Whole(100))
           /\ (wp'.pc = "resolved" /\ pf'.i = Len(pf'.pdfFiles) - 1)
                  => ui'.processingProgress = Whole(100)]_vars

\* C29: in App, activeFileIndex is an index of processedFiles whenever there
\* are processed files, and a text change replaces the extractedText of the
\* file at activeFileIndex and nothing else.
ActiveFileValid ==
    [][/\ Len(app'.processedFiles) > 0
              => app'.activeFileIndex \in 0..(Len(app'.processedFiles) - 1)
       /\ (app'.processedFiles # app.processedFiles /\ delivered' = delivered)
              => /\ app'.activeFileIndex = app.activeFileIndex
                 /\ Len(app'.processedFiles) = Len(app.processedFiles)
                 /\ \A k \in 1..Len(app.processedFiles) :
                        IF k = app.activeFileIndex + 1
                        THEN app'.processedFiles[k]
                                 = [app.processedFiles[k] EXCEPT
                                       !.extractedText = app'.processedFiles[k].extractedText]
                        ELSE app'.processedFiles[k] = app.processedFiles[k]]_vars

\* the second of two files is active and was edited; the first has its
\* extracted text
ActiveFileValidWitness ==
    /\ Len(app.processedFiles) = 2
    /\ app.activeFileIndex = 1
    /\ app.processedFiles[2].extractedText = <<"x">>
    /\ app.processedFiles[2].name = "good.pdf"
    /\ app.processedFiles[1] = delivered[1][1]
    /\ app.processedFiles[1].extractedText # <<"x">>

(***************************************************************************)
(* Properties of cleanExtractedText (SpecClean)                            *)
(***************************************************************************)
\* C17: the whitespace normalizer is idempotent: applied to its own result it
\* returns that result.
NormalizerIdempotent ==
    cl.applied = 2 => cl.twice = cl.once

\* "a\n\n\n\na" became "a\n\na" and stayed so
NormalizerIdempotentWitness ==
    /\ cl.applied = 2
    /\ cl.text = <<"a", "\n", "\n", "\n", "\n", "a">>
    /\ cl.once = <<"a", "\n", "\n", "a">>
    /\ cl.twice = <<"a", "\n", "\n", "a">>

\* C23: the output of the whitespace normalizer has no three consecutive line
\* breaks, no tab, no two adjacent spaces, and no line that begins or ends
\* with a space.
NormalizedShape ==
    cl.applied >= 1 =>
        LET out == cl.once
        IN  /\ \A n \in 1..(Len(out) - 2) :
                   ~(out[n] = NL /\ out[n + 1] = NL /\ out[n + 2] = NL)
            /\ \A n \in 1..Len(out) : out[n] # TAB
            /\ \A n \in 1..(Len(out) - 1) : ~(out[n] = SP /\ out[n + 1] = SP)
            /\ \A n \in 1..Len(out) :
                   out[n] = SP =>
                       /\ n > 1 /\ out[n - 1] # NL
                       /\ n < Len(out) /\ out[n + 1] # NL

\* three line breaks with a space and a tab between them became two
NormalizedShapeWitness ==
    /\ cl.applied = 1
    /\ cl.text = <<"a", NL, SP, NL, TAB, NL, "a">>
    /\ cl.once = <<"a", NL, NL, "a">>

(***************************************************************************)
(* Properties of processTextContent (SpecReconstruct)                      *)
(***************************************************************************)
RecItems == rec.textContent.items
NonBlank(k) == Trim(RecItems[k].str) # <<>>
NonBlankItems == { k \in 1..Len(RecItems) : NonBlank(k) }

\* the non-blank item before item k, 0 when there is none
PreviousNonBlank(k) ==
    IF \E j \in NonBlankItems : j < k
    THEN Max({ j \in NonBlankItems : j < k })
    ELSE 0
HasPrevious(k) == PreviousNonBlank(k) # 0

\* the output so far when item k is reached
TextBefore(k) == IF k = 1 THEN <<>> ELSE rec.texts[k - 1]

\* what the loop put between the output so far and the text of item k
Emitted(k) ==
    SubSeq(rec.texts[k], Len(TextBefore(k)) + 1,
           Len(rec.texts[k]) - Len(RecItems[k].str))

\* item k was appended, after the output so far and what was emitted
Appended(k) ==
    rec.texts[k] = TextBefore(k) \o Emitted(k) \o RecItems[k].str

VerticalDistance(k) == Abs(RecItems[k].y - RecItems[PreviousNonBlank(k)].y)
HorizontalGap(k) ==
    RecItems[k].x
        - (RecItems[PreviousNonBlank(k)].x + RecItems[PreviousNonBlank(k)].width)
SameLine(k) == HasPrevious(k) /\ VerticalDistance(k) <= 5

\* C18: a line break is emitted before a non-blank fragment exactly when
\* preserveFormatting is on, a previous non-blank fragment exists and the
\* vertical distance to it exceeds 5; and then nothing else is emitted at
\* that boundary, whatever the horizontal gap.
LineBreakRule ==
    rec.called =>
        \A k \in NonBlankItems :
            /\ Appended(k)
            /\ (\E n \in 1..Len(Emitted(k)) : Emitted(k)[n] = NL)
                   <=> (/\ rec.options.preserveFormatting
                        /\ HasPrevious(k)
                        /\ VerticalDistance(k) > 5)
            /\ (\E n \in 1..Len(Emitted(k)) : Emitted(k)[n] = NL)
                   => Emitted(k) = <<NL>>

\* two fragments 6 units apart vertically and 21 horizontally, every option on
LineBreakRuleWitness ==
    /\ rec.called
    /\ rec.options = DefaultOptions
    /\ RecItems = <<Item(<<"a">>, 0, 100, 5), Item(<<"a">>, 26, 106, 5)>>
    /\ rec.raw = <<"a", NL, "a">>
    /\ rec.result = Returned(<<"a", NL, "a">>)

\* C19: with combineTextItems on, two consecutive non-blank fragments of one
\* line, the output so far not ending with a space and the new fragment not
\* starting with one, get exactly one space between them, also when the
\* horizontal gap is not above 20.
CombineRule ==
    (rec.called /\ rec.options.combineTextItems) =>
        \A k \in NonBlankItems :
            (/\ SameLine(k)
             /\ ~EndsWithSpace(TextBefore(k))
             /\ ~StartsWithSpace(RecItems[k].str))
                => (Appended(k) /\ Emitted(k) = <<SP>>)

\* two fragments of one line with a gap of 20, combineTextItems alone
CombineRuleWitness ==
    /\ rec.called
    /\ rec.options.combineTextItems
    /\ ~rec.options.preserveFormatting
    /\ RecItems = <<Item(<<"a">>, 0, 100, 5), Item(<<"a">>, 25, 100, 5)>>
    /\ HorizontalGap(2) = 20
    /\ rec.raw = <<"a", SP, "a">>
    /\ rec.result = Returned(<<"a", SP, "a">>)

\* C20: with preserveFormatting on and combineTextItems off, two consecutive
\* non-blank fragments of one line get a single space between them exactly
\* when the second starts more than 20 after the trailing edge (x + width) of
\* the first, and nothing otherwise.
HorizontalGapRule ==
    (rec.called /\ rec.options.preserveFormatting /\ ~rec.options.combineTextItems) =>
        \A k \in NonBlankItems :
            SameLine(k) =>
                /\ Appended(k)
                /\ Emitted(k) = IF HorizontalGap(k) > 20 THEN <<SP>> ELSE <<>>

\* two fragments of one line, the second 21 after the trailing edge of the first
HorizontalGapRuleWitness ==
    /\ rec.called
    /\ rec.options.preserveFormatting
    /\ ~rec.options.combineTextItems
    /\ RecItems = <<Item(<<"a">>, 0, 100, 5), Item(<<"a">>, 26, 100, 5)>>
    /\ HorizontalGap(2) = 21
    /\ rec.raw = <<"a", SP, "a">>

\* C21: a fragment that is all whitespace is skipped: the page text is the
\* page text of the same items with the blank ones taken out, under the same
\* options.
BlankFragmentsSkipped ==
    rec.again => rec.withoutBlanks = rec.result

\* a blank item at y = 130 between two fragments of one line, every option on
BlankFragmentsSkippedWitness ==
    /\ rec.again
    /\ rec.options = DefaultOptions
    /\ RecItems = <<Item(<<"a">>, 0, 100, 5), BlankItem, Item(<<"a">>, 26, 100, 5)>>
    /\ rec.result = Returned(<<"a", SP, "a">>)
    /\ rec.withoutBlanks = Returned(<<"a", SP, "a">>)

NonWhitespace(s) == SelectSeq(s, LAMBDA c : ~IsWhitespace(c))

\* the contents of the items one after another, in stream order
RECURSIVE ConcatStrs(_)
ConcatStrs(items) ==
    IF items = <<>> THEN <<>> ELSE Head(items).str \o ConcatStrs(Tail(items))

\* C22: the non-whitespace characters of the returned page text are those of
\* the fragments' contents, each unchanged and in stream order.
NonWhitespacePreserved ==
    rec.called =>
        /\ ~rec.result.throws
        /\ NonWhitespace(rec.result.text) = NonWhitespace(ConcatStrs(RecItems))

\* a letter and a character above code 127, on two lines
NonWhitespacePreservedWitness ==
    /\ rec.called
    /\ rec.options = DefaultOptions
    /\ RecItems = <<Item(<<SP, EAcute, SP>>, 0, 100, 5), Item(<<"a">>, 26, 106, 5)>>
    /\ rec.result = Returned(<<EAcute, NL, "a">>)

\* C30: between two consecutive non-blank fragments the loop puts at most one
\* character, a line break or a space, and nothing before the first fragment.
AtMostOneSeparator ==
    rec.called =>
        \A k \in NonBlankItems :
            /\ Appended(k)
            /\ Emitted(k) \in {<<>>, <<SP>>, <<NL>>}
            /\ ~HasPrevious(k) => Emitted(k) = <<>>

\* a gap of 21 on one line with every option on: the gap rule and the
\* combine rule both apply, and one space is emitted
AtMostOneSeparatorWitness ==
    /\ rec.called
    /\ rec.options = DefaultOptions
    /\ RecItems = <<Item(<<"a">>, 0, 100, 5), Item(<<"a">>, 26, 100, 5)>>
    /\ HorizontalGap(2) = 21
    /\ SameLine(2)
    /\ Emitted(2) = <<SP>>
    /\ rec.raw = <<"a", SP, "a">>

(***************************************************************************)
(* Properties of ExportPanel (SpecExport)                                  *)
(***************************************************************************)
\* C24: isExporting is null exactly when no export is in progress, and holds
\* a format id while one is pending.
IsExportingTracksPending ==
    (exp.isExporting = NoFormat) <=> (exp.pending = <<>>)

(***************************************************************************)
(* Properties of the entry points side by side (SpecCompare)               *)
(***************************************************************************)
\* C25: for the same document and options, when no page fails, the string
\* returned by extractTextWithProgress is the text field returned by
\* extractDetailedTextFromPDF, and the string returned by extractTextFromPDF.
SameDocumentText ==
    (/\ wp.pc = "resolved"
     /\ det.pc = "resolved"
     /\ ext.pc = "resolved"
     /\ wp.file = det.file
     /\ wp.options = det.options
     /\ FailingPages(det.file, det.options) = {})
        => /\ wp.result = det.result.text
           /\ wp.result = ext.result

\* a blank first page and a second page with text: the marker of page 2
\* opens fullText in both loops, and both trim it
SameDocumentTextWitness ==
    /\ wp.pc = "resolved"
    /\ ext.pc = "resolved"
    /\ wp.file = det.file
    /\ wp.options = det.options
    /\ det.file.content.pages = <<PgBlank, PgHello>>
    /\ FailingPages(det.file, det.options) = {}
    /\ det.fullText # det.result.text
    /\ wp.result = det.result.text
    /\ wp.result # <<>>

====
